---- MODULE Spec2Model ----
(***************************************************************************)
(* kb-engine: the indexation pipeline (IndexationPipeline) over the three  *)
(* stores it writes: the SQLite traceability store (documents, chunks),    *)
(* the Chroma vector store and the SQLite graph store.                     *)
(*                                                                         *)
(* One caller runs one pipeline operation at a time; an operation is a     *)
(* sequence of awaited store calls, one action per call, and any call may  *)
(* raise.  pc is the caller's position, op the top-level operation.        *)
(***************************************************************************)
EXTENDS Integers, Sequences, FiniteSets, Bags, TLC

\* ------------------------------------------------------------------ bounds
MaxDocs  == 2      \* Document objects built without an id (uuid4 draws)
MaxRuns  == 3      \* index_document runs (each draws fresh chunk/node uuids)
MaxEdges == 1      \* edges created through the graph store
MaxCalls == 3      \* top-level calls and commits
MaxFaults == 2     \* store or collaborator calls that raise
MaxLinks == 2      \* edges created in the graph store called directly
MaxHops  == 2      \* largest max_hops handed to traverse
MaxHits  == 3      \* references a vector search can match; largest limit

\* ------------------------------------------------------------------ domains
RepoName  == "kb"
AllFiles  == <<"a.md", "b.md">>          \* in sorted order (scanner.py:110)
FileSet   == {AllFiles[i] : i \in 1..Len(AllFiles)}
Contents  == {"v1", "v2"}
Absent    == "absent"                    \* the path is not in the tree
Trees     == [FileSet -> Contents \cup {Absent}]

NoId   == 0
NoExt  == <<>>
NoHash == <<>>

ExternalId(f) == <<RepoName, f>>
ExtIds == {ExternalId(f) : f \in FileSet}

\* compute_content_hash: a digest of the raw content, distinct for distinct
\* contents.
Hash(c) == <<"sha256", c>>

\* Document(...) as the model builds it: status defaults to pending, no hash,
\* no indexed_at.
NewDocument(id, e, c) ==
    [id |-> id, ext |-> e, content |-> c, status |-> "pending",
     hash |-> NoHash, indexedAt |-> FALSE]

NoDoc == [id |-> NoId, ext |-> NoExt, content |-> "", status |-> "",
          hash |-> NoHash, indexedAt |-> FALSE]

NoExc == [type |-> "none", docId |-> NoId]
PipelineError(id) == [type |-> "PipelineError", docId |-> id]
StoreError == [type |-> "StoreError", docId |-> NoId]
\* The process stopped (killed, cancelled) in the middle of a call.
Interrupted == [type |-> "Interrupted", docId |-> NoId]

\* ------------------------------------------------- traceability store (SQL)
\* INSERT OR REPLACE INTO documents: the row with the same primary key and the
\* row with the same (non-NULL) UNIQUE external_id are removed, then the new
\* row is inserted.  No PRAGMA foreign_keys=ON is issued, so nothing cascades.
SaveDocument(rows, d) ==
    {r \in rows : r.id # d.id /\ (d.ext = NoExt \/ r.ext # d.ext)} \cup {d}

\* UPDATE documents SET ... WHERE id=?: external_id is not in the SET list.
UpdateDocument(rows, d) ==
    {IF r.id = d.id
       THEN [r EXCEPT !.content = d.content, !.status = d.status,
                      !.hash = d.hash, !.indexedAt = d.indexedAt]
       ELSE r : r \in rows}

DeleteDocumentRow(rows, id) == {r \in rows : r.id # id}
RowExists(rows, id) == \E r \in rows : r.id = id

GetDocument(rows, id) ==
    IF \E r \in rows : r.id = id THEN CHOOSE r \in rows : r.id = id ELSE NoDoc

GetDocumentByExternalId(rows, e) ==
    IF \E r \in rows : r.ext = e THEN CHOOSE r \in rows : r.ext = e ELSE NoDoc

\* INSERT OR REPLACE INTO chunks, keyed by chunk id.
SaveChunks(chs, new) ==
    {c \in chs : \A n \in new : n.id # c.id} \cup new

DeleteChunksByDocument_Keeps(chs, id) == chs

DeleteChunksByDocument(chs, id) == {c \in chs : c.doc # id}

\* ------------------------------------------------------ vector store (Chroma)
\* collection.upsert keyed by chunk id.
UpsertEmbeddings(vs, embs) ==
    {v \in vs : \A e \in embs : e.chunk # v.chunk} \cup embs

VectorDeleteByDocument_Keeps(vs, id) == vs

VectorDeleteByDocument(vs, id) == {v \in vs : v.doc # id}

\* --------------------------------------------------------------- graph store
CreateNode(ns, n) == {m \in ns : m.id # n.id} \cup {n}
CreateEdge(es, e) == {x \in es : x.id # e.id} \cup {e}
GraphDeleteEdges(es, id) == {e \in es : e.doc # id}
GraphDeleteNodes_Keeps(ns, id) == ns

GraphDeleteNodes(ns, id) == {n \in ns : n.doc # id}

\* ------------------------------------------------------------- collaborators
\* The chunker, the embedding provider and the extraction pipeline: how many
\* chunks and nodes a content yields is a function of the content; each run
\* gives them fresh uuid4 ids, <<stamp, k>> for the run's stamp.
ChunkCount(c)   == IF c = "v1" THEN 1 ELSE 2
ExtractCount(c) == IF c = "v1" THEN 1 ELSE 2

ChunkDocument(d, s) ==
    {[id |-> <<s, k>>, doc |-> d.id] : k \in 1..ChunkCount(d.content)}

EmbedChunks(chs) == {[chunk |-> c.id, doc |-> c.doc] : c \in chs}

ExtractNodes(d, s, n) == {[id |-> <<s, k>>, doc |-> d.id] : k \in 1..n}

\* ------------------------------------------------------------------ state
VARIABLES
    documents, chunks, vectors, nodes, edges,   \* the stores
    graphOn,                                    \* self._graph is not None
    head,                                       \* the working tree at HEAD
    uuid, runs, edgeSeq,                        \* uuid4 draws so far
    calls, faults,                              \* calls made, raises so far
    op, pc,                                     \* operation and position
    doc,                                        \* the Document in hand
    stamp,                                      \* the current run's stamp
    err,                                        \* step of index_document that raised
    exc,                                        \* exception in flight / raised
    ret,                                        \* delete_document's return value
    faulted, swallowed,                         \* a call raised / was swallowed
    hadRow,                                     \* row existed when delete began
    base, chgq, delq, file,                     \* sync / scan: revision, queues
    indexed, skipped, deleted,                  \* sync summary
    outcome, found,                             \* per-file log of the batch
    results, attempted,                         \* index_repository
    prev,                                       \* the previous completed call
    before,                                     \* row ids when index_document began
    request, response,                          \* a store / retrieval / resolver
                                                \* call made directly, its result
    callers                                     \* coroutines of concurrent callers

stores == <<documents, chunks, vectors, nodes, edges>>
env    == <<graphOn, head>>
ids    == <<uuid, runs, edgeSeq>>
quota  == <<calls, faults>>
task   == <<op, pc, doc, stamp, err, exc, ret, faulted, swallowed, hadRow>>
batch  == <<base, chgq, delq, file, indexed, skipped, deleted, outcome, found,
            results, attempted>>
aside  == <<request, response, callers>>
vars   == <<stores, env, ids, quota, task, batch, prev, before, aside>>

NoTree    == [f \in FileSet |-> Absent]
NoOutcome == [f \in FileSet |-> "none"]
NotLooked == -1
NoFound   == [f \in FileSet |-> NotLooked]
NoPrev    == [op |-> "none", id |-> NoId, stamp |-> 0, clean |-> FALSE,
              cut |-> FALSE, base |-> NoTree, raised |-> FALSE]
NoRequest  == [op |-> "none"]
NoResponse == <<>>

\* The coroutines of the event loop besides the one followed by pc: where each
\* is suspended, the Document it holds, its run's stamp, whether it raised.
Callers  == {"a", "b"}
NoCaller == [pc |-> "idle", doc |-> NoDoc, stamp |-> 0, raised |-> FALSE]

InitWith(h) ==
    /\ documents = {} /\ chunks = {} /\ vectors = {} /\ nodes = {} /\ edges = {}
    /\ graphOn \in BOOLEAN
    /\ head = h
    /\ uuid = 0 /\ runs = 0 /\ edgeSeq = 0
    /\ calls = 0 /\ faults = 0
    /\ op = "none" /\ pc = "idle" /\ doc = NoDoc /\ stamp = 0
    /\ err = "none" /\ exc = NoExc /\ ret = FALSE
    /\ faulted = FALSE /\ swallowed = FALSE /\ hadRow = FALSE
    /\ base = NoTree /\ chgq = <<>> /\ delq = <<>> /\ file = ""
    /\ indexed = 0 /\ skipped = 0 /\ deleted = 0
    /\ outcome = NoOutcome /\ found = NoFound
    /\ results = <<>> /\ attempted = <<>>
    /\ prev = NoPrev
    /\ before = {}
    /\ request = NoRequest /\ response = NoResponse
    /\ callers = [c \in Callers |-> NoCaller]

\* The stores are empty after construction; no repository is involved in the
\* single-document interface.
Init == InitWith(NoTree)

\* The repository interface starts on any working tree.
InitRepo == \E h \in Trees : InitWith(h)

\* ------------------------------------------------------------ index_document
\* The body of the try block up to save_document: status and hash are set on
\* the object in hand, then the row is written.
Processing_KeepsPending(d) == [d EXCEPT !.hash = Hash(d.content)]

Processing(d) == [d EXCEPT !.status = "processing", !.hash = Hash(d.content)]

\* Step 8: status and indexed_at are set on the object, then the row updated.
Indexed(d) == [d EXCEPT !.status = "indexed", !.indexedAt = TRUE]

\* The except block: status failed on the object in hand.
Failed(d) == [d EXCEPT !.status = "failed"]

\* What the except block raises; persistRaised says whether its own
\* update_document raised (that error is dropped by `except Exception: pass`).
IndexFailure_Reraises(d, persistRaised) ==
    IF persistRaised THEN StoreError ELSE PipelineError(d.id)

IndexFailure(d, persistRaised) == PipelineError(d.id)

\* A call may raise while the raise quota lasts.
MayFail == IF faults < MaxFaults THEN BOOLEAN ELSE {FALSE}
Count(fault) == faults' = IF fault THEN faults + 1 ELSE faults

\* The statements of the try block that can raise.
IndexSteps == {"save", "chunks", "upsert", "graph", "update"}

\* A step of the try block raises: control moves to the except block.
Raise(step) ==
    /\ err' = step
    /\ faulted' = TRUE
    /\ pc' = "fail"

\* 1. document.status = PROCESSING; content_hash; save_document.
IxSave ==
    /\ pc = "save"
    /\ runs < MaxRuns
    /\ runs' = runs + 1
    /\ stamp' = runs + 1
    /\ doc' = Processing(doc)
    /\ before' = {r.id : r \in documents}
    /\ \E fault \in MayFail :
         /\ Count(fault)
         /\ IF fault
           THEN Raise("save") /\ UNCHANGED documents
           ELSE /\ documents' = SaveDocument(documents, Processing(doc))
                /\ pc' = "chunks"
                /\ UNCHANGED <<err, faulted>>
    /\ UNCHANGED <<chunks, vectors, nodes, edges, env, uuid, edgeSeq, op, exc,
                   ret, swallowed, hadRow, batch, prev, aside,
                   calls>>

\* 2-4. chunk_document, section anchors, save_chunks.
IxChunks ==
    /\ pc = "chunks"
    /\ \E fault \in MayFail :
         /\ Count(fault)
         /\ IF fault
           THEN Raise("chunks") /\ UNCHANGED chunks
           ELSE /\ chunks' = SaveChunks(chunks, ChunkDocument(doc, stamp))
                /\ pc' = "upsert"
                /\ UNCHANGED <<err, faulted>>
    /\ UNCHANGED <<documents, vectors, nodes, edges, env, ids, op, doc, stamp,
                   exc, ret, swallowed, hadRow, batch, prev, before, aside,
                   calls>>

\* 5-6. embed_chunks over the chunks just saved, upsert_embeddings.
IxUpsert ==
    /\ pc = "upsert"
    /\ \E fault \in MayFail :
         /\ Count(fault)
         /\ IF fault
           THEN Raise("upsert") /\ UNCHANGED vectors
           ELSE /\ vectors' = UpsertEmbeddings(
                                 vectors, EmbedChunks(ChunkDocument(doc, stamp)))
                /\ pc' = "graph"
                /\ UNCHANGED <<err, faulted>>
    /\ UNCHANGED <<documents, chunks, nodes, edges, env, ids, op, doc, stamp,
                   exc, ret, swallowed, hadRow, batch, prev, before, aside,
                   calls>>

\* 7. if self._graph is not None: extract_document, then create_node for each
\* extracted node, one commit per node: a raise after k nodes leaves k nodes.
IxGraph ==
    /\ pc = "graph"
    /\ IF graphOn
         THEN \E k \in 0..ExtractCount(doc.content) :
                /\ (k < ExtractCount(doc.content)) \in MayFail
                /\ Count(k < ExtractCount(doc.content))
                /\ nodes' = nodes \cup ExtractNodes(doc, stamp, k)
                /\ IF k < ExtractCount(doc.content)
                     THEN Raise("graph")
                     ELSE pc' = "update" /\ UNCHANGED <<err, faulted>>
         ELSE /\ pc' = "update"
              /\ UNCHANGED <<nodes, err, faulted, faults>>
    /\ UNCHANGED <<documents, chunks, vectors, edges, env, ids, op, doc, stamp,
                   exc, ret, swallowed, hadRow, batch, prev, before, aside,
                   calls>>

\* 8. status INDEXED, indexed_at, update_document; return document.
IxUpdate ==
    /\ pc = "update"
    /\ doc' = Indexed(doc)
    /\ \E fault \in MayFail :
         /\ Count(fault)
         /\ IF fault
           THEN Raise("update") /\ UNCHANGED documents
           ELSE /\ documents' = UpdateDocument(documents, Indexed(doc))
                /\ pc' = "ret"
                /\ UNCHANGED <<err, faulted>>
    /\ UNCHANGED <<chunks, vectors, nodes, edges, env, ids, op, stamp, exc,
                   ret, swallowed, hadRow, batch, prev, before, aside,
                   calls>>

\* except Exception: status FAILED, update_document inside try/except-pass,
\* raise PipelineError(document_id) from e.
IxFail ==
    /\ pc = "fail"
    /\ doc' = Failed(doc)
    /\ \E fault \in MayFail :
         /\ Count(fault)
         /\ IF fault
              THEN swallowed' = TRUE /\ UNCHANGED documents
              ELSE /\ documents' = UpdateDocument(documents, Failed(doc))
                   /\ UNCHANGED swallowed
         /\ exc' = IndexFailure(doc, fault)
    /\ pc' = "ret"
    /\ UNCHANGED <<chunks, vectors, nodes, edges, env, ids, op, stamp, err,
                   ret, faulted, hadRow, batch, prev, before, aside,
                   calls>>

\* The process stops between two awaited store calls of index_document or
\* reindex_document: each call has committed what it wrote, nothing is rolled
\* back, no except block runs.
MidRun == {"chunks", "upsert", "graph", "update", "rx_graph", "rx_chunks"}

Interrupt ==
    /\ pc \in MidRun \/ (pc = "save" /\ op = "reindex")
    /\ op \in {"index", "reindex"}
    /\ faults < MaxFaults
    /\ faults' = faults + 1
    /\ exc' = Interrupted
    /\ faulted' = TRUE
    /\ pc' = "done"
    /\ UNCHANGED <<stores, env, ids, calls, op, doc, stamp, err, ret,
                   swallowed, hadRow, batch, prev, before, aside>>

\* index_document was called directly (IndexingService.index_document) or as
\* the last statement of reindex_document: its outcome is the call's outcome.
IxReturn ==
    /\ pc = "ret"
    /\ op \in {"index", "reindex"}
    /\ pc' = "done"
    /\ UNCHANGED <<stores, env, ids, op, doc, stamp, err, exc, ret, faulted,
                   swallowed, hadRow, batch, prev, before, aside,
                   quota>>

\* IndexingService.index_document: a new Document (fresh uuid4), optional
\* external id.
CallIndex ==
    /\ pc = "idle"
    /\ calls < MaxCalls
    /\ calls' = calls + 1
    /\ uuid < MaxDocs
    /\ \E e \in {ExternalId(AllFiles[1]), NoExt}, c \in Contents :
         doc' = NewDocument(uuid + 1, e, c)
    /\ uuid' = uuid + 1
    /\ op' = "index"
    /\ pc' = "save"
    /\ UNCHANGED <<stores, env, runs, edgeSeq, stamp, err, exc, ret, faulted,
                   swallowed, hadRow, batch, prev, before, aside,
                   faults>>

\* ---------------------------------------------------------- reindex_document
\* An exception leaves reindex_document before index_document is entered.
RxRaise ==
    /\ exc' = StoreError
    /\ faulted' = TRUE
    /\ pc' = "ret"

\* self._vector.delete_by_document: Chroma's get/delete run inside
\* try/except Exception, which logs a warning and returns 0.
RxVector ==
    /\ pc = "rx_vec"
    /\ \E fault \in MayFail :
         /\ Count(fault)
         /\ IF fault
           THEN faulted' = TRUE /\ UNCHANGED vectors
           ELSE vectors' = VectorDeleteByDocument(vectors, doc.id)
                /\ UNCHANGED faulted
    /\ pc' = "rx_graph"
    /\ UNCHANGED <<documents, chunks, nodes, edges, env, ids, op, doc, stamp,
                   err, exc, ret, swallowed, hadRow, batch, prev, before, aside,
                   calls>>

\* if self._graph is not None: self._graph.delete_by_document (edges, nodes).
RxGraph ==
    /\ pc = "rx_graph"
    /\ IF graphOn
         THEN \E fault \in MayFail :
                /\ Count(fault)
                /\ IF fault
                  THEN RxRaise /\ UNCHANGED <<nodes, edges>>
                  ELSE /\ edges' = GraphDeleteEdges(edges, doc.id)
                       /\ nodes' = GraphDeleteNodes(nodes, doc.id)
                       /\ pc' = "rx_chunks"
                       /\ UNCHANGED <<exc, faulted>>
         ELSE pc' = "rx_chunks"
              /\ UNCHANGED <<nodes, edges, exc, faulted, faults>>
    /\ UNCHANGED <<documents, chunks, vectors, env, ids, op, doc, stamp, err,
                   ret, swallowed, hadRow, batch, prev, before, aside,
                   calls>>

\* self._traceability.delete_chunks_by_document, then index_document.
RxChunks ==
    /\ pc = "rx_chunks"
    /\ \E fault \in MayFail :
         /\ Count(fault)
         /\ IF fault
           THEN RxRaise /\ UNCHANGED chunks
           ELSE /\ chunks' = DeleteChunksByDocument(chunks, doc.id)
                /\ pc' = "save"
                /\ UNCHANGED <<exc, faulted>>
    /\ UNCHANGED <<documents, vectors, nodes, edges, env, ids, op, doc, stamp,
                   err, ret, swallowed, hadRow, batch, prev, before, aside,
                   calls>>

\* IndexingService.reindex_document: the stored document is fetched by id
\* (DocumentNotFoundError when there is none) and handed to the pipeline.
CallReindex ==
    /\ pc = "idle"
    /\ calls < MaxCalls
    /\ calls' = calls + 1
    /\ \E r \in documents :
         doc' = r
    /\ op' = "reindex"
    /\ pc' = "rx_vec"
    /\ UNCHANGED <<stores, env, ids, stamp, err, exc, ret, faulted, swallowed,
                   hadRow, batch, prev, before, aside,
                   faults>>

\* ----------------------------------------------------------- delete_document
DelRaise ==
    /\ exc' = StoreError
    /\ faulted' = TRUE
    /\ pc' = "del_ret"

DelVector ==
    /\ pc = "del_vec"
    /\ \E fault \in MayFail :
         /\ Count(fault)
         /\ IF fault
           THEN faulted' = TRUE /\ UNCHANGED vectors
           ELSE vectors' = VectorDeleteByDocument(vectors, doc.id)
                /\ UNCHANGED faulted
    /\ pc' = "del_graph"
    /\ UNCHANGED <<documents, chunks, nodes, edges, env, ids, op, doc, stamp,
                   err, exc, ret, swallowed, hadRow, batch, prev, before, aside,
                   calls>>

DelGraph ==
    /\ pc = "del_graph"
    /\ IF graphOn
         THEN \E fault \in MayFail :
                /\ Count(fault)
                /\ IF fault
                  THEN DelRaise /\ UNCHANGED <<nodes, edges>>
                  ELSE /\ edges' = GraphDeleteEdges(edges, doc.id)
                       /\ nodes' = GraphDeleteNodes(nodes, doc.id)
                       /\ pc' = "del_chunks"
                       /\ UNCHANGED <<exc, faulted>>
         ELSE pc' = "del_chunks"
              /\ UNCHANGED <<nodes, edges, exc, faulted, faults>>
    /\ UNCHANGED <<documents, chunks, vectors, env, ids, op, doc, stamp, err,
                   ret, swallowed, hadRow, batch, prev, before, aside,
                   calls>>

DelChunks ==
    /\ pc = "del_chunks"
    /\ \E fault \in MayFail :
         /\ Count(fault)
         /\ IF fault
           THEN DelRaise /\ UNCHANGED chunks
           ELSE /\ chunks' = DeleteChunksByDocument(chunks, doc.id)
                /\ pc' = "del_row"
                /\ UNCHANGED <<exc, faulted>>
    /\ UNCHANGED <<documents, vectors, nodes, edges, env, ids, op, doc, stamp,
                   err, ret, swallowed, hadRow, batch, prev, before, aside,
                   calls>>

\* return await self._traceability.delete_document(document.id):
\* DELETE FROM documents WHERE id = ?; cursor.rowcount > 0.
DelRow ==
    /\ pc = "del_row"
    /\ \E fault \in MayFail :
         /\ Count(fault)
         /\ IF fault
           THEN DelRaise /\ UNCHANGED <<documents, ret>>
           ELSE /\ documents' = DeleteDocumentRow(documents, doc.id)
                /\ ret' = RowExists(documents, doc.id)
                /\ pc' = "del_ret"
                /\ UNCHANGED <<exc, faulted>>
    /\ UNCHANGED <<chunks, vectors, nodes, edges, env, ids, op, doc, stamp,
                   err, swallowed, hadRow, batch, prev, before, aside,
                   calls>>

DelReturn ==
    /\ pc = "del_ret"
    /\ op = "delete"
    /\ pc' = "done"
    /\ UNCHANGED <<stores, env, ids, op, doc, stamp, err, exc, ret, faulted,
                   swallowed, hadRow, batch, prev, before, aside,
                   quota>>

\* pipeline.delete_document(document) for a Document whose id was issued
\* before; its row may or may not be in the store any more.
CallDelete ==
    /\ pc = "idle"
    /\ calls < MaxCalls
    /\ calls' = calls + 1
    /\ \E i \in 1..uuid :
         /\ doc' = [GetDocument(documents, i) EXCEPT !.id = i]
         /\ hadRow' = RowExists(documents, i)
    /\ op' = "delete"
    /\ pc' = "del_vec"
    /\ UNCHANGED <<stores, env, ids, stamp, err, exc, ret, faulted, swallowed,
                   batch, prev, before, aside,
                   faults>>

\* ------------------------------------------------------- graph store, direct
\* create_edge between two stored nodes, sourced from a document or from none.
CallCreateEdge ==
    /\ pc = "idle"
    /\ calls < MaxCalls
    /\ calls' = calls + 1
    /\ graphOn
    /\ edgeSeq < MaxEdges
    /\ \E s \in nodes, t \in nodes, d \in {r.id : r \in documents} \cup {NoId} :
         edges' = CreateEdge(edges, [id |-> edgeSeq + 1, src |-> s.id,
                                     dst |-> t.id, doc |-> d])
    /\ edgeSeq' = edgeSeq + 1
    /\ UNCHANGED <<documents, chunks, vectors, nodes, env, uuid, runs, task,
                   batch, prev, before, aside,
                   faults>>

\* ------------------------------------------------------------------ scanner
\* scan_files: git ls-files, filtered, sorted.
ScanFiles(tree) == SelectSeq(AllFiles, LAMBDA f : tree[f] # Absent)

\* get_changed_files: git diff --name-only <since> HEAD names every path that
\* differs between the two trees, the paths removed since then included.
ChangedFiles(since, tree) == SelectSeq(AllFiles, LAMBDA f : since[f] # tree[f])

\* get_deleted_files: the same diff with --diff-filter=D.
DeletedFiles(since, tree) ==
    SelectSeq(AllFiles, LAMBDA f : since[f] # Absent /\ tree[f] = Absent)

\* read_file: Path.read_text raises FileNotFoundError for a removed path.
Readable(tree, f) == tree[f] # Absent

\* ---------------------------------------------------------- index_repository
\* The next per-file iteration starts with no exception in hand.
ClearRun == err' = "none" /\ exc' = NoExc /\ swallowed' = FALSE

CallIndexRepository ==
    /\ pc = "idle"
    /\ calls < MaxCalls
    /\ calls' = calls + 1
    /\ op' = "indexRepo"
    /\ \E isGitRepo \in BOOLEAN :
         IF isGitRepo
           THEN /\ chgq' = ScanFiles(head)
                /\ pc' = "ir_loop"
                /\ UNCHANGED <<err, exc>>
           ELSE /\ err' = "not_git_repo"
                /\ exc' = PipelineError(NoId)
                /\ pc' = "done"
                /\ UNCHANGED chgq
    /\ UNCHANGED <<stores, env, ids, doc, stamp, ret, faulted, swallowed,
                   hadRow, base, delq, file, indexed, skipped, deleted,
                   outcome, found, results, attempted, faults, prev, before, aside>>

\* for relative_path in files: read_file, Document(external_id=...), then
\* index_document; a raise of read_file is caught and logged.
IrNext ==
    /\ pc = "ir_loop"
    /\ chgq # <<>>
    /\ LET f == Head(chgq) IN
         /\ chgq' = Tail(chgq)
         /\ file' = f
         /\ attempted' = Append(attempted, f)
         /\ \E fault \in MayFail :
              /\ Count(fault)
              /\ IF fault
                   THEN /\ outcome' = [outcome EXCEPT ![f] = "error"]
                        /\ faulted' = TRUE
                        /\ UNCHANGED <<doc, uuid, pc>>
                   ELSE /\ uuid < MaxDocs
                        /\ uuid' = uuid + 1
                        /\ doc' = NewDocument(uuid + 1, ExternalId(f), head[f])
                        /\ pc' = "save"
                        /\ UNCHANGED <<outcome, faulted>>
    /\ UNCHANGED <<stores, env, runs, edgeSeq, calls, op, stamp, err, exc, ret,
                   swallowed, hadRow, base, delq, indexed, skipped, deleted,
                   found, results, prev, before, aside>>

\* documents.append(doc) runs only when index_document returned.
Collect_AppendsAlways(docs, d, e) == Append(docs, d)

Collect(docs, d, e) == IF e = NoExc THEN Append(docs, d) ELSE docs

\* doc = await self.index_document(doc); documents.append(doc) / except: log.
IrCollect ==
    /\ pc = "ret"
    /\ op = "indexRepo"
    /\ results' = Collect(results, doc, exc)
    /\ outcome' = [outcome EXCEPT
                     ![file] = IF exc = NoExc THEN "indexed" ELSE "error"]
    /\ ClearRun
    /\ pc' = "ir_loop"
    /\ UNCHANGED <<stores, env, ids, quota, op, doc, stamp, ret, faulted,
                   hadRow, base, chgq, delq, file, indexed, skipped, deleted,
                   found, attempted, prev, before, aside>>

\* return documents
IrDone ==
    /\ pc = "ir_loop"
    /\ chgq = <<>>
    /\ pc' = "done"
    /\ UNCHANGED <<stores, env, ids, quota, op, doc, stamp, err, exc, ret,
                   faulted, swallowed, hadRow, batch, prev, before, aside>>

\* ----------------------------------------------------------- sync_repository
\* Document(id=existing.id if existing else None, ...): the id handed to the
\* model, and whether the model accepts it (id: UUID is not Optional, so None
\* fails validation).
SyncDocumentId_Fresh(existing) ==
    IF existing # NoDoc THEN existing.id + 1 ELSE NoId

SyncDocumentId(existing) == IF existing # NoDoc THEN existing.id ELSE NoId
ValidDocumentId(i) == i # NoId

\* The since revisions a call is made with: for every set of paths, one tree
\* that differs from HEAD in exactly those paths (a path in HEAD was not
\* there then, a path not in HEAD was).
Revisions(tree) ==
    {[f \in FileSet |-> IF f \in D
                          THEN IF tree[f] = Absent THEN "v1" ELSE Absent
                          ELSE tree[f]] : D \in SUBSET FileSet}

CallSync ==
    /\ pc = "idle"
    /\ calls < MaxCalls
    /\ calls' = calls + 1
    /\ op' = "sync"
    /\ \E since \in Revisions(head) :
         /\ base' = since
         /\ chgq' = ChangedFiles(since, head)
         /\ delq' = DeletedFiles(since, head)
         /\ deleted' = Len(DeletedFiles(since, head))
    /\ pc' = "sy_del"
    /\ UNCHANGED <<stores, env, ids, doc, stamp, err, exc, ret, faulted,
                   swallowed, hadRow, file, indexed, skipped, outcome, found,
                   results, attempted, faults, prev, before, aside>>

\* A since_commit git does not know: git diff exits non-zero and _run_git
\* (check=True) raises CalledProcessError in both diff calls.
UnknownRevision == [f \in FileSet |-> "unknown"]

ChangedFilesOnFailure_None(tree) == <<>>

\* get_changed_files, except CalledProcessError: return self.scan_files()
ChangedFilesOnFailure(tree) == ScanFiles(tree)

\* get_deleted_files, except CalledProcessError: return []
DeletedFilesOnFailure == <<>>

\* sync_repository(repo_config, since_commit) with an unknown since_commit.
CallSyncUnknown ==
    /\ pc = "idle"
    /\ calls < MaxCalls
    /\ calls' = calls + 1
    /\ op' = "sync"
    /\ base' = UnknownRevision
    /\ chgq' = ChangedFilesOnFailure(head)
    /\ delq' = DeletedFilesOnFailure
    /\ deleted' = Len(DeletedFilesOnFailure)
    /\ pc' = "sy_del"
    /\ UNCHANGED <<stores, env, ids, doc, stamp, err, exc, ret, faulted,
                   swallowed, hadRow, file, indexed, skipped, outcome, found,
                   results, attempted, faults, prev, before, aside>>

\* for relative_path in deleted_files: get_document_by_external_id; if
\* existing: delete_document(existing).  Nothing here is inside a try.
SyDelNext ==
    /\ pc = "sy_del"
    /\ delq # <<>>
    /\ LET f == Head(delq)
           existing == GetDocumentByExternalId(documents, ExternalId(f))
       IN
         /\ delq' = Tail(delq)
         /\ file' = f
         /\ \E fault \in MayFail :
              /\ Count(fault)
              /\ IF fault
                   THEN /\ exc' = StoreError
                        /\ faulted' = TRUE
                        /\ pc' = "done"
                        /\ UNCHANGED <<doc, hadRow, found>>
                   ELSE IF existing # NoDoc
                          THEN /\ doc' = existing
                               /\ hadRow' = TRUE
                               /\ found' = [found EXCEPT ![f] = existing.id]
                               /\ pc' = "del_vec"
                               /\ UNCHANGED <<exc, faulted>>
                          ELSE UNCHANGED <<doc, hadRow, found, pc, exc,
                                           faulted>>
    /\ UNCHANGED <<stores, env, ids, calls, op, stamp, err, ret, swallowed,
                   base, chgq, indexed, skipped, deleted, outcome, results,
                   attempted, prev, before, aside>>

\* delete_document is over: its exception, if any, leaves sync_repository.
SyDelCollect ==
    /\ pc = "del_ret"
    /\ op = "sync"
    /\ pc' = IF exc # NoExc THEN "done" ELSE "sy_del"
    /\ UNCHANGED <<stores, env, ids, quota, op, doc, stamp, err, exc, ret,
                   faulted, swallowed, hadRow, batch, prev, before, aside>>

SyDelDone ==
    /\ pc = "sy_del"
    /\ delq = <<>>
    /\ pc' = "sy_chg"
    /\ UNCHANGED <<stores, env, ids, quota, op, doc, stamp, err, exc, ret,
                   faulted, swallowed, hadRow, batch, prev, before, aside>>

\* for relative_path in changed_files, inside try/except-log: read_file, hash,
\* lookup by external id; skip on equal hash; else build the Document and
\* reindex_document (existing) or index_document (none).
SyChgNext ==
    /\ pc = "sy_chg"
    /\ chgq # <<>>
    /\ LET f == Head(chgq)
           existing == GetDocumentByExternalId(documents, ExternalId(f))
       IN
         /\ chgq' = Tail(chgq)
         /\ file' = f
         /\ \E fault \in MayFail :
              /\ Count(fault)
              /\ IF fault \/ ~Readable(head, f)
                   THEN /\ outcome' = [outcome EXCEPT ![f] = "error"]
                        /\ faulted' = (faulted \/ fault)
                        /\ UNCHANGED <<doc, pc, skipped, found>>
                   ELSE /\ found' = [found EXCEPT ![f] = existing.id]
                        /\ UNCHANGED faulted
                        /\ IF existing # NoDoc /\ existing.hash = Hash(head[f])
                             THEN /\ skipped' = skipped + 1
                                  /\ outcome' = [outcome EXCEPT ![f] = "skipped"]
                                  /\ UNCHANGED <<doc, pc>>
                             ELSE IF ~ValidDocumentId(SyncDocumentId(existing))
                                    THEN /\ outcome' =
                                              [outcome EXCEPT ![f] = "error"]
                                         /\ UNCHANGED <<doc, pc, skipped>>
                                    ELSE /\ doc' = NewDocument(
                                                      SyncDocumentId(existing),
                                                      ExternalId(f), head[f])
                                         /\ pc' = IF existing # NoDoc
                                                    THEN "rx_vec" ELSE "save"
                                         /\ UNCHANGED <<outcome, skipped>>
    /\ UNCHANGED <<stores, env, ids, calls, op, stamp, err, exc, ret,
                   swallowed, hadRow, base, delq, indexed, deleted, results,
                   attempted, prev, before, aside>>

\* reindex_document / index_document is over: indexed += 1, or except: log.
SyCollect ==
    /\ pc = "ret"
    /\ op = "sync"
    /\ IF exc = NoExc
         THEN /\ indexed' = indexed + 1
              /\ outcome' = [outcome EXCEPT ![file] = "indexed"]
         ELSE /\ outcome' = [outcome EXCEPT ![file] = "error"]
              /\ UNCHANGED indexed
    /\ ClearRun
    /\ pc' = "sy_chg"
    /\ UNCHANGED <<stores, env, ids, quota, op, doc, stamp, ret, faulted,
                   hadRow, base, chgq, delq, file, skipped, deleted, found,
                   results, attempted, prev, before, aside>>

\* return {"commit", "indexed", "deleted": len(deleted_files), "skipped"}
SyDone ==
    /\ pc = "sy_chg"
    /\ chgq = <<>>
    /\ pc' = "done"
    /\ UNCHANGED <<stores, env, ids, quota, op, doc, stamp, err, exc, ret,
                   faulted, swallowed, hadRow, batch, prev, before, aside>>

\* A commit moves HEAD to another tree while no call is running.
RepoChange ==
    /\ pc = "idle"
    /\ calls < MaxCalls
    /\ calls' = calls + 1
    /\ \E t \in Trees \ {head} : head' = t
    /\ prev' = NoPrev
    /\ UNCHANGED <<stores, graphOn, ids, faults, task, batch, before, aside>>

\* The caller has the outcome; the task is over.
Finish ==
    /\ pc = "done"
    /\ prev' = IF op = "reindex" \/ (op = "index" /\ exc = Interrupted)
                 THEN [NoPrev EXCEPT !.op = op, !.id = doc.id,
                                     !.stamp = stamp, !.clean = ~faulted,
                                     !.cut = (exc = Interrupted)]
               ELSE IF op = "sync"
                 THEN [NoPrev EXCEPT !.op = op, !.base = base,
                                     !.raised = (exc # NoExc)]
               ELSE NoPrev
    /\ op' = "none" /\ pc' = "idle" /\ doc' = NoDoc /\ stamp' = 0
    /\ err' = "none" /\ exc' = NoExc /\ ret' = FALSE
    /\ faulted' = FALSE /\ swallowed' = FALSE /\ hadRow' = FALSE
    /\ base' = NoTree /\ chgq' = <<>> /\ delq' = <<>> /\ file' = ""
    /\ indexed' = 0 /\ skipped' = 0 /\ deleted' = 0
    /\ outcome' = NoOutcome /\ found' = NoFound
    /\ results' = <<>> /\ attempted' = <<>>
    /\ before' = {}
    /\ UNCHANGED <<stores, env, ids, quota, aside>>

\* The single-document interface of the pipeline (IndexingService).
Next ==
    \/ CallIndex \/ CallReindex \/ CallDelete \/ CallCreateEdge
    \/ IxSave \/ IxChunks \/ IxUpsert \/ IxGraph \/ IxUpdate \/ IxFail
    \/ RxVector \/ RxGraph \/ RxChunks
    \/ DelVector \/ DelGraph \/ DelChunks \/ DelRow
    \/ IxReturn \/ DelReturn
    \/ Finish

Spec == Init /\ [][Next]_vars

\* index_document and reindex_document in a process that can stop between
\* two store calls and be started again.
NextCut ==
    \/ CallIndex \/ CallReindex
    \/ IxSave \/ IxChunks \/ IxUpsert \/ IxGraph \/ IxUpdate \/ IxFail
    \/ RxVector \/ RxGraph \/ RxChunks
    \/ IxReturn
    \/ Interrupt
    \/ Finish

SpecCut == Init /\ [][NextCut]_vars

\* The repository interface of the pipeline: index_repository and
\* sync_repository over a working tree that commits change.
NextRepo ==
    \/ CallIndexRepository \/ IrNext \/ IrCollect \/ IrDone
    \/ CallSync \/ SyDelNext \/ SyDelCollect \/ SyDelDone
    \/ SyChgNext \/ SyCollect \/ SyDone
    \/ RepoChange
    \/ IxSave \/ IxChunks \/ IxUpsert \/ IxGraph \/ IxUpdate \/ IxFail
    \/ RxVector \/ RxGraph \/ RxChunks
    \/ DelVector \/ DelGraph \/ DelChunks \/ DelRow
    \/ Finish

SpecRepo == InitRepo /\ [][NextRepo]_vars

\* sync_repository handed a revision git does not know, over a repository
\* that index_repository has indexed and that commits change.
NextDiff ==
    \/ CallIndexRepository \/ IrNext \/ IrCollect \/ IrDone
    \/ CallSyncUnknown \/ SyDelDone
    \/ SyChgNext \/ SyCollect \/ SyDone
    \/ RepoChange
    \/ IxSave \/ IxChunks \/ IxUpsert \/ IxGraph \/ IxUpdate \/ IxFail
    \/ RxVector \/ RxGraph \/ RxChunks
    \/ Finish

SpecDiff == InitRepo /\ [][NextDiff]_vars

\* ------------------------------------------------- graph store, called directly
\* The nodes the extraction yields and the document each is extracted from;
\* edge types.
GraphNodes == {"A", "B", "C"}
NodeDoc(n) == IF n = "A" THEN 1 ELSE 2
EdgeTypes  == {"t1", "t2"}
NoTypes    == {}                 \* edge_types is None or empty: no filter

\* What the pipeline side holds while the graph store is called directly.
pipelineSide == <<documents, chunks, vectors, env, uuid, runs, quota, task,
                  batch, prev, before, callers>>

InitGraph == InitWith(NoTree) /\ graphOn

\* delete_by_document returns edge_count + node_count, the two rowcounts.
GraphDeleteCount(es, ns, id) ==
    Cardinality(es \ GraphDeleteEdges(es, id))
      + Cardinality(ns \ GraphDeleteNodes(ns, id))

EdgeFilter_None(e, types) == TRUE

\* AND e.edge_type IN (...), present only when edge_types is non-empty.
EdgeFilter(e, types) == types = NoTypes \/ e.type \in types

\* The recursive CTE `path`, one row per walk: the row of a walk is its last
\* edge with depth = the walk's length.  Base: the edges out of the start node,
\* depth 1.  Step: for a row with depth < max_hops, the edges out of its
\* target, depth + 1.  UNION ALL keeps every row.
RECURSIVE PathRows(_, _, _, _, _)
PathRows(es, rows, depth, hops, types) ==
    IF rows = {} \/ ~(depth < hops)
      THEN rows
      ELSE rows \cup PathRows(
             es,
             UNION {{Append(w, e) :
                        e \in {x \in es : /\ x.src = w[Len(w)].dst
                                           /\ EdgeFilter(x, types)}} :
                    w \in rows},
             depth + 1, hops, types)

Path(es, start, hops, types) ==
    PathRows(es, {<<e>> : e \in {x \in es : /\ x.src = start
                                              /\ EdgeFilter(x, types)}},
             1, hops, types)

\* FROM path p JOIN graph_edges e JOIN graph_nodes sn JOIN graph_nodes tn: a
\* row whose source or target node is not stored joins nothing.
Triple(ns, e) ==
    {<<sn, e, tn>> : sn \in {n \in ns : n.id = e.src},
                     tn \in {n \in ns : n.id = e.dst}}

Joined(ns, w) == Triple(ns, w[Len(w)])

\* Without DISTINCT every row of path gives its own result row.
SelectDistinct_All(ns, rows) ==
    LET triples == UNION {Joined(ns, w) : w \in rows}
    IN  [t \in triples |-> Cardinality({w \in rows : t \in Joined(ns, w)})]

\* SELECT DISTINCT: one result row for each distinct joined row.
SelectDistinct(ns, rows) ==
    SetToBag(UNION {Joined(ns, w) : w \in rows})

\* traverse(start_node_id, max_hops, edge_types): the list of
\* (source, edge, target), as a bag (SQL fixes no order).
Traverse(ns, es, start, hops, types) ==
    SelectDistinct(ns, Path(es, start, hops, types))

\* create_node: INSERT OR REPLACE by id.
GCreateNode ==
    /\ request = NoRequest
    /\ \E id \in GraphNodes :
         LET n == [id |-> id, doc |-> NodeDoc(id)] IN
           /\ n \notin nodes
           /\ nodes' = CreateNode(nodes, n)
           /\ request' = [op |-> "create_node", node |-> n]
           /\ response' = n
    /\ UNCHANGED <<edges, edgeSeq, pipelineSide>>

\* create_edge between two stored nodes, of either type, sourced from the
\* document of its source node.
GCreateEdge ==
    /\ request = NoRequest
    /\ edgeSeq < MaxLinks
    /\ \E s \in nodes, t \in nodes, ty \in EdgeTypes :
         LET e == [id |-> edgeSeq + 1, src |-> s.id, dst |-> t.id,
                   type |-> ty, doc |-> s.doc] IN
           /\ edges' = CreateEdge(edges, e)
           /\ request' = [op |-> "create_edge", edge |-> e]
           /\ response' = e
    /\ edgeSeq' = edgeSeq + 1
    /\ UNCHANGED <<nodes, pipelineSide>>

\* delete_by_document(document_id): edges, then nodes, by source_document_id.
GDeleteByDocument ==
    /\ request = NoRequest
    /\ \E d \in {NodeDoc(n) : n \in GraphNodes} :
         /\ edges' = GraphDeleteEdges(edges, d)
         /\ nodes' = GraphDeleteNodes(nodes, d)
         /\ request' = [op |-> "delete_by_document", doc |-> d]
         /\ response' = GraphDeleteCount(edges, nodes, d)
    /\ UNCHANGED <<edgeSeq, pipelineSide>>

\* traverse(start_node_id, max_hops, edge_types)
GTraverse ==
    /\ request = NoRequest
    /\ \E start \in GraphNodes, hops \in 0..MaxHops,
          types \in {NoTypes, {"t1"}} :
         /\ request' = [op |-> "traverse", start |-> start, hops |-> hops,
                        types |-> types]
         /\ response' = Traverse(nodes, edges, start, hops, types)
    /\ UNCHANGED <<nodes, edges, edgeSeq, pipelineSide>>

\* The caller has the result of its call.
Return ==
    /\ request # NoRequest
    /\ request' = NoRequest
    /\ response' = NoResponse
    /\ UNCHANGED <<nodes, edges, edgeSeq, pipelineSide>>

NextGraph ==
    \/ GCreateNode \/ GCreateEdge \/ GDeleteByDocument \/ GTraverse
    \/ Return

SpecGraph == InitGraph /\ [][NextGraph]_vars

\* ------------------------------------------------------------------ claims
RunChunks     == ChunkDocument(doc, stamp)
RunEmbeddings == EmbedChunks(RunChunks)
RunNodes      == IF graphOn
                   THEN ExtractNodes(doc, stamp, ExtractCount(doc.content))
                   ELSE {}
\* What the stores hold of the run stamped s, store by store.
OfRun(s)      == <<{c \in chunks : c.id[1] = s},
                   {v \in vectors : v.chunk[1] = s},
                   {n \in nodes : n.id[1] = s}>>
Row           == GetDocument(documents, doc.id)
IndexSucceeded == pc = "ret" /\ err = "none" /\ exc = NoExc

\* C1: while an index_document run raises nowhere, the stored row of its
\* document is written first, as processing with the content's hash; the run's
\* chunks, then its embeddings, then its graph nodes are written while the row
\* stays processing; the row is indexed with indexed_at set only once all of
\* them are there; and no row is ever stored as pending or archived.
C1_ProcessingThenIndexed ==
    /\ \A r \in documents : r.status \in {"processing", "indexed", "failed"}
    /\ (err = "none" /\ pc \in {"chunks", "upsert", "graph", "update"}) =>
          /\ Row # NoDoc
          /\ Row.status = "processing"
          /\ Row.hash = Hash(doc.content)
    /\ (err = "none" /\ pc = "chunks") => OfRun(stamp) = <<{}, {}, {}>>
    /\ (err = "none" /\ pc = "upsert") => OfRun(stamp) = <<RunChunks, {}, {}>>
    /\ (err = "none" /\ pc = "graph") =>
          OfRun(stamp) = <<RunChunks, RunEmbeddings, {}>>
    /\ (err = "none" /\ pc = "update") =>
          OfRun(stamp) = <<RunChunks, RunEmbeddings, RunNodes>>
    /\ IndexSucceeded =>
          /\ Row.status = "indexed"
          /\ Row.indexedAt
          /\ Row.hash = Hash(doc.content)
          /\ OfRun(stamp) = <<RunChunks, RunEmbeddings, RunNodes>>

C1_Witness ==
    /\ IndexSucceeded
    /\ op = "index"
    /\ graphOn
    /\ Row.status = "indexed"
    /\ RunNodes \subseteq nodes
    /\ RunChunks \subseteq chunks

\* C2: when a step of index_document has raised, the call ends by raising a
\* PipelineError that carries the document id, the document in hand is failed,
\* and its stored row is failed unless persisting that status raised too, in
\* which case the caller still gets the same PipelineError.
C2_FailureRaisesPipelineError ==
    (err \in IndexSteps /\ pc \in {"ret", "done"}) =>
        /\ exc = PipelineError(doc.id)
        /\ doc.status = "failed"
        /\ (~swallowed /\ Row # NoDoc) => Row.status = "failed"

C2_Witness ==
    /\ op = "index"
    /\ pc = "done"
    /\ err = "chunks"
    /\ swallowed
    /\ exc = PipelineError(doc.id)
    /\ Row.status = "processing"

\* C3: when a reindex_document that raised nowhere follows another such
\* reindex_document of the same document id, the stores hold for that id
\* exactly the chunks, one embedding per chunk and the graph nodes the second
\* run wrote, and nothing the first run wrote is left in any store.
SecondCleanReindex ==
    /\ op = "reindex" /\ pc = "done" /\ ~faulted /\ exc = NoExc
    /\ prev.op = "reindex" /\ prev.id = doc.id /\ prev.clean

C3_ReindexTwiceOneSet ==
    SecondCleanReindex =>
        /\ {c \in chunks : c.doc = doc.id} = RunChunks
        /\ {v \in vectors : v.doc = doc.id} = RunEmbeddings
        /\ {n \in nodes : n.doc = doc.id} = RunNodes
        /\ OfRun(prev.stamp) = <<{}, {}, {}>>

C3_Witness ==
    /\ SecondCleanReindex
    /\ graphOn
    /\ Cardinality(RunChunks) = 2
    /\ prev.stamp # stamp

\* C7: once delete_document has returned, no vector entry, graph node, graph
\* edge, chunk row or document row of the document id is left, and the value
\* returned tells whether the document row existed before the call.
C7_DeleteLeavesNothing ==
    (op = "delete" /\ pc = "done" /\ exc = NoExc) =>
        /\ {v \in vectors : v.doc = doc.id} = {}
        /\ {n \in nodes : n.doc = doc.id} = {}
        /\ {e \in edges : e.doc = doc.id} = {}
        /\ {c \in chunks : c.doc = doc.id} = {}
        /\ ~RowExists(documents, doc.id)
        /\ ret = hadRow

\* The same, for the calls in which no store call raised.
C7_CleanDelete ==
    (op = "delete" /\ pc = "done" /\ ~faulted) =>
        /\ {v \in vectors : v.doc = doc.id} = {}
        /\ {n \in nodes : n.doc = doc.id} = {}
        /\ {e \in edges : e.doc = doc.id} = {}
        /\ {c \in chunks : c.doc = doc.id} = {}
        /\ ~RowExists(documents, doc.id)
        /\ ret = hadRow

\* C11: when index_document has ended by raising PipelineError, every document
\* row that was stored when the call began, the row of the document itself and
\* an earlier row with the same external id included, is still stored.
C11_FailureDeletesNoRow ==
    (err \in IndexSteps /\ pc \in {"ret", "done"}
       /\ exc = PipelineError(doc.id)) =>
        before \subseteq {r.id : r \in documents}

\* C12: a step that removes a document row from the traceability store, be it
\* delete_document or a save_document that replaces the row holding the same
\* external id, leaves no chunk row with the removed row's document id.
C12_ChunksCascade ==
    [][\A r \in documents :
          ~RowExists(documents', r.id) => \A c \in chunks' : c.doc # r.id]_vars

\* C18: when reindex_document or delete_document ends after one of its store
\* calls failed, the caller has a PipelineError that carries the document id.
C18_FailuresSurfaced ==
    (op \in {"reindex", "delete"} /\ pc = "done" /\ faulted
       /\ exc # Interrupted) =>
        exc = PipelineError(doc.id)

\* C19: when a reindex_document in which nothing raised and nothing stopped
\* follows an index_document or reindex_document of the same document id that
\* was stopped between two of its steps, the stored row is indexed and the
\* stores hold for that id exactly the chunks, embeddings and graph nodes the
\* last run wrote.
RecoveringReindex ==
    /\ op = "reindex" /\ pc = "done" /\ ~faulted /\ exc = NoExc
    /\ prev.cut /\ prev.id = doc.id

C19_ReindexRecovers ==
    RecoveringReindex =>
        /\ Row.status = "indexed"
        /\ Row.indexedAt
        /\ Row.hash = Hash(doc.content)
        /\ {c \in chunks : c.doc = doc.id} = RunChunks
        /\ {v \in vectors : v.doc = doc.id} = RunEmbeddings
        /\ {n \in nodes : n.doc = doc.id} = RunNodes

C19_Witness ==
    /\ RecoveringReindex
    /\ graphOn
    /\ prev.op = "index"
    /\ prev.stamp # stamp
    /\ Cardinality(RunChunks) = 2

\* ------------------------------------------------------- retrieval pipeline
Urls      == {"u1", "u2"}
RawScores == {1, 2}              \* similarity scores, in arbitrary units
Modes     == {"vector", "graph", "hybrid"}

RrfK == 60

InitSearch == InitWith(NoTree) /\ graphOn

RECURSIVE Gcd(_, _)
Gcd(a, b) == IF b = 0 THEN a ELSE Gcd(b, a % b)
Lcm(a, b) == (a \div Gcd(a, b)) * b

\* Scores are exact: a fused score is held as a whole number of units of
\* 1 / RrfScale, RrfScale the least common multiple of the denominators
\* k + rank + 1 that can occur.
RECURSIVE LcmUpTo(_)
LcmUpTo(n) == IF n = 0 THEN 1 ELSE Lcm(LcmUpTo(n - 1), RrfK + n)
RrfScale == LcmUpTo(MaxHits)

RrfScore_RankBlind(rank) == RrfScale \div (RrfK + 1)

\* rrf_score = 1.0 / (k + rank + 1), rank 0-based.
RrfScore(rank) == RrfScale \div (RrfK + rank + 1)

\* The references _vector_search builds from the store's hits, each its own
\* object (id), mode vector.
VectorRefs(hits) ==
    [i \in 1..Len(hits) |->
        [id |-> i, url |-> hits[i].url, score |-> hits[i].score,
         mode |-> "vector"]]

\* What the index can match for a query, nearest first.
AllHits ==
    {h \in UNION {[1..n -> [url : Urls, score : RawScores]] : n \in 0..MaxHits} :
        \A i \in 1..Len(h) - 1 : h[i].score >= h[i + 1].score}

Min(a, b) == IF a < b THEN a ELSE b

\* references[:limit] for limit >= 0
Truncate(refs, limit) == SubSeq(refs, 1, Min(limit, Len(refs)))

\* list.sort(key=score, reverse=True): stable, equal scores keep their order.
RECURSIVE InsertDesc(_, _)
InsertDesc(sorted, r) ==
    IF sorted = <<>> THEN <<r>>
    ELSE IF Head(sorted).score >= r.score
           THEN <<Head(sorted)>> \o InsertDesc(Tail(sorted), r)
           ELSE <<r>> \o sorted

SortDesc_Keep(refs) == refs

RECURSIVE SortDesc(_)
SortDesc(refs) ==
    IF refs = <<>> THEN <<>>
    ELSE InsertDesc(SortDesc(SubSeq(refs, 1, Len(refs) - 1)), refs[Len(refs)])

\* The loop over enumerate(references): url_scores as the list of
\* (first reference of the url, summed score) in order of first occurrence.
RECURSIVE UrlScores(_, _)
UrlScores(refs, n) ==
    IF n = 0 THEN <<>>
    ELSE LET acc == UrlScores(refs, n - 1)
             ref == refs[n]
             at  == {i \in 1..Len(acc) : acc[i].url = ref.url}
         IN  IF at # {}
               THEN [i \in 1..Len(acc) |->
                       IF i \in at
                         THEN [acc[i] EXCEPT
                                 !.score = @ + RrfScore(n - 1)]
                         ELSE acc[i]]
               ELSE Append(acc, [ref EXCEPT !.score = RrfScore(n - 1)])

\* _deduplicate_references(references, limit)
DeduplicateReferences(refs, limit) ==
    LET merged == [i \in 1..Len(UrlScores(refs, Len(refs))) |->
                     [UrlScores(refs, Len(refs))[i] EXCEPT !.mode = "hybrid"]]
    IN  Truncate(SortDesc(merged), limit)

\* _vector_search: the vector store returns at most n_results = limit hits.
VectorSearch(hits, limit) == VectorRefs(Truncate(hits, limit))

\* _graph_search: a placeholder that returns [].
GraphSearch == <<>>

\* search(query, mode, filters, limit)
SearchReferences(mode, hits, limit) ==
    LET vec   == IF mode \in {"vector", "hybrid"}
                   THEN VectorSearch(hits, limit) ELSE <<>>
        gra   == IF mode \in {"graph", "hybrid"} THEN GraphSearch ELSE <<>>
        refs  == vec \o gra
        fused == IF mode = "hybrid"
                   THEN DeduplicateReferences(refs, limit) ELSE refs
    IN  Truncate(SortDesc(fused), limit)

Search ==
    /\ request = NoRequest
    /\ \E mode \in Modes, hits \in AllHits, limit \in 1..MaxHits :
         /\ request' = [op |-> "search", mode |-> mode, hits |-> hits,
                        limit |-> limit]
         /\ response' =
              [references |-> SearchReferences(mode, hits, limit),
               total_count |-> Len(SearchReferences(mode, hits, limit))]
    /\ UNCHANGED <<nodes, edges, edgeSeq, pipelineSide>>

\* _deduplicate_references over a candidate list, whatever its scores.
Deduplicate ==
    /\ request = NoRequest
    /\ \E hits \in AllHits, limit \in 1..MaxHits :
         /\ request' = [op |-> "deduplicate", refs |-> VectorRefs(hits),
                        limit |-> limit]
         /\ response' = DeduplicateReferences(VectorRefs(hits), limit)
    /\ UNCHANGED <<nodes, edges, edgeSeq, pipelineSide>>

NextSearch == Search \/ Deduplicate \/ Return

SpecSearch == InitSearch /\ [][NextSearch]_vars

\* ------------------------------------------------------------ URL resolver
\* URLResolver (git/url_resolver.py).  A text is the sequence of its pieces, so
\* that formatting, replacing and matching are done on the text and a result
\* can be compared piece by piece.  An optional text (str | None) is the empty
\* set for None and a one-element set for a text.
None     == {}
Some(s)  == {s}
TextOf(o) == CHOOSE s \in o : TRUE

\* Python truthiness of an optional text: None and "" are false.
Truthy(o) == o # None /\ TextOf(o) # <<>>
\* o or ""
OrEmpty(o) == IF Truthy(o) THEN TextOf(o) ELSE <<>>

Templates ==
    {None, Some(<<>>),
     Some(<<"{remote}", "/-/tree/", "{branch}", "/", "{path}">>),
     Some(<<"https://docs.example/", "{branch}", "/", "{path}", "?src=",
            "{path}">>)}
Remotes ==
    {None, Some(<<>>),
     Some(<<"https://", "github.com", "/", "org/repo", ".git">>),
     Some(<<"https://", "github.com", "/", "org/repo">>),
     Some(<<"git@", "github.com", ":", "org/repo", ".git">>),
     Some(<<"alice@", "git.example", ":", "org/repo", ".git">>)}
Branches   == {"main", "develop"}
LocalPaths == {<<"/", "tmp/test-repo">>, <<"test-repo">>}
RelPaths   == {"README.md", "docs/entity.md"}
Anchors    == {None, Some(<<>>), Some(<<"sec">>)}
Cwd        == <<"/", "home/kb">>

Configs ==
    [base_url_template : Templates, remote_url : Remotes, branch : Branches,
     local_path : LocalPaths]

InitUrl == InitWith(NoTree) /\ graphOn

\* str.replace(old, new): every occurrence of the piece old, left to right.
RECURSIVE Replace(_, _, _)
Replace(text, old, new) ==
    IF text = <<>> THEN <<>>
    ELSE (IF Head(text) = old THEN new ELSE <<Head(text)>>)
           \o Replace(Tail(text), old, new)

\* _normalize_remote_url: re.sub(r"\.git$", "", url), then
\* re.match(r"git@([^:]+):(.+)", url) -> https://{host}/{path}.  The match
\* needs git@ first, a non-empty host before the first colon and a non-empty
\* rest after it.
NormalizeRemoteUrl(url) ==
    LET stripped == IF url # <<>> /\ url[Len(url)] = ".git"
                    THEN SubSeq(url, 1, Len(url) - 1) ELSE url
        colons   == {i \in 1..Len(stripped) : stripped[i] = ":"}
        first    == CHOOSE i \in colons : \A j \in colons : i <= j
        ssh      == /\ stripped # <<>>
                    /\ stripped[1] = "git@"
                    /\ colons # {}
                    /\ first >= 3
                    /\ first < Len(stripped)
    IN  IF ssh
        THEN <<"https://">> \o SubSeq(stripped, 2, first - 1) \o <<"/">>
               \o SubSeq(stripped, first + 1, Len(stripped))
        ELSE stripped

\* if anchor: url += f"#{anchor}"
WithAnchor(url, anchor) ==
    IF Truthy(anchor) THEN url \o <<"#">> \o TextOf(anchor) ELSE url

\* Path(config.local_path).resolve(): an absolute path is kept, a relative
\* one is taken from the working directory.
RepoPath(config) ==
    IF config.local_path[1] = "/" THEN config.local_path
    ELSE Cwd \o <<"/">> \o config.local_path

ResolveLocal(config, relative_path, anchor) ==
    WithAnchor(<<"file://">> \o RepoPath(config) \o <<"/", relative_path>>,
               anchor)

ResolveRemote(config, relative_path, anchor) ==
    WithAnchor(NormalizeRemoteUrl(OrEmpty(config.remote_url))
                 \o <<"/blob/", config.branch, "/", relative_path>>,
               anchor)

ResolveTemplate(config, relative_path, anchor) ==
    LET template == OrEmpty(config.base_url_template)
        remote   == NormalizeRemoteUrl(OrEmpty(config.remote_url))
        url1     == Replace(template, "{remote}", remote)
        url2     == Replace(url1, "{branch}", <<config.branch>>)
        url3     == Replace(url2, "{path}", <<relative_path>>)
    IN  WithAnchor(url3, anchor)

ResolveUrl_RemoteFirst(config, relative_path, anchor) ==
    IF Truthy(config.remote_url)
    THEN ResolveRemote(config, relative_path, anchor)
    ELSE IF Truthy(config.base_url_template)
    THEN ResolveTemplate(config, relative_path, anchor)
    ELSE ResolveLocal(config, relative_path, anchor)

\* resolve: template, else remote, else local.
ResolveUrl(config, relative_path, anchor) ==
    IF Truthy(config.base_url_template)
    THEN ResolveTemplate(config, relative_path, anchor)
    ELSE IF Truthy(config.remote_url)
    THEN ResolveRemote(config, relative_path, anchor)
    ELSE ResolveLocal(config, relative_path, anchor)

\* URLResolver(config).resolve(relative_path, anchor)
Resolve ==
    /\ request = NoRequest
    /\ \E config \in Configs, relative_path \in RelPaths, anchor \in Anchors :
         /\ request' = [op |-> "resolve", config |-> config,
                        path |-> relative_path, anchor |-> anchor]
         /\ response' = ResolveUrl(config, relative_path, anchor)
    /\ UNCHANGED <<nodes, edges, edgeSeq, pipelineSide>>

\* URLResolver._normalize_remote_url(url)
Normalize ==
    /\ request = NoRequest
    /\ \E remote \in Remotes \ {None} :
         /\ request' = [op |-> "normalize", url |-> TextOf(remote)]
         /\ response' = NormalizeRemoteUrl(TextOf(remote))
    /\ UNCHANGED <<nodes, edges, edgeSeq, pipelineSide>>

NextUrl == Resolve \/ Normalize \/ Return

SpecUrl == InitUrl /\ [][NextUrl]_vars

\* ------------------------------------------------------ graph store, queries
\* find_nodes, get_edges and find_similar_nodes of SQLiteGraphRepository,
\* called directly.  A name is the sequence of its characters.
MaxLimit == 2       \* largest limit handed to find_nodes / find_similar_nodes

NodeName(id) ==
    CASE id = "A" -> <<"U", "s", "e", "r">>
      [] id = "B" -> <<"u", "s", "e", "r">>
      [] OTHER    -> <<"O", "r", "d", "e", "r">>
NodeType(id) == IF id = "C" THEN "concept" ELSE "entity"
NodeTypes    == {"entity", "concept"}
Patterns     == {<<"u", "s">>, <<"U", "s">>, <<"e", "r">>}
NoText       == ""         \* a str | None argument that is None or empty
NoPattern    == <<>>       \* name_pattern is None or empty
Directions   == {"out", "in", "both"}

\* SQLite's LIKE folds the ASCII letters: 'a' LIKE 'A' is true.
Fold(ch) ==
    CASE ch = "U" -> "u"
      [] ch = "O" -> "o"
      [] OTHER    -> ch

\* name LIKE '%' || pattern || '%'
Like(name, pattern) ==
    \E k \in 0..(Len(name) - Len(pattern)) :
       \A i \in 1..Len(pattern) : Fold(name[k + i]) = Fold(pattern[i])

\* SELECT * FROM graph_nodes [WHERE node_type = ? [AND] name LIKE ?]: a
\* condition is added for an argument that is truthy.
NodeRows(ns, node_type, name_pattern) ==
    {n \in ns : /\ node_type # NoText => NodeType(n.id) = node_type
                /\ name_pattern # NoPattern
                     => Like(NodeName(n.id), name_pattern)}

\* LIMIT ? with no ORDER BY: any `limit` of the rows.
Limited(rows, limit) ==
    {r \in SUBSET rows : Cardinality(r) = Min(limit, Cardinality(rows))}

FindNodes(ns, node_type, name_pattern, limit) ==
    Limited(NodeRows(ns, node_type, name_pattern), limit)

\* get_edges: the WHERE text is built by appending " AND edge_type = ?" to
\* the direction's condition, and AND binds tighter than OR.
GetEdges(es, node_id, direction, edge_type) ==
    IF direction = "out"
      THEN {e \in es : /\ e.src = node_id
                       /\ edge_type # NoText => e.type = edge_type}
    ELSE IF direction = "in"
      THEN {e \in es : /\ e.dst = node_id
                       /\ edge_type # NoText => e.type = edge_type}
    ELSE {e \in es : \/ e.src = node_id
                     \/ /\ e.dst = node_id
                        /\ edge_type # NoText => e.type = edge_type}

\* find_similar_nodes: the edges e2 joined to node n,
\*   WHERE e2.target_id IN (targets of the edges out of node_id)
\*      OR e2.source_id IN (sources of the edges into node_id) AND n.id != ?
\* where AND binds tighter than OR.
SharedEdges(es, n, node_id) ==
    LET targets == {e.dst : e \in {x \in es : x.src = node_id}}
        sources == {e.src : e \in {x \in es : x.dst = node_id}}
    IN  {e2 \in es : /\ e2.src = n.id \/ e2.dst = n.id
                     /\ \/ e2.dst \in targets
                        \/ e2.src \in sources /\ n.id # node_id}

SimilarityDivisor == 10

\* float(shared_edges) / 10.0, capped at 1.0: the score in tenths.
Similarity(shared) == Min(shared, SimilarityDivisor)

\* GROUP BY n.id ORDER BY shared_edges DESC LIMIT ?: the groups are the
\* nodes with a joined row; rows with equal counts come in any order.
FindSimilarNodes(ns, es, node_id, limit) ==
    LET groups   == {n \in ns : SharedEdges(es, n, node_id) # {}}
        count(n) == Cardinality(SharedEdges(es, n, node_id))
        k        == Min(limit, Cardinality(groups))
        orders   == {q \in [1..k -> groups] :
                       /\ \A i, j \in 1..k : i < j =>
                            /\ q[i] # q[j]
                            /\ count(q[i]) >= count(q[j])
                       /\ \A g \in groups \ {q[i] : i \in 1..k} :
                            k > 0 /\ count(g) <= count(q[k])}
    IN  {[i \in 1..k |-> [node |-> q[i], shared |-> count(q[i]),
                          score |-> Similarity(count(q[i]))]] : q \in orders}

GFindNodes ==
    /\ request = NoRequest
    /\ \E node_type \in NodeTypes \cup {NoText},
          name_pattern \in Patterns \cup {NoPattern},
          limit \in 1..MaxLimit :
         /\ request' = [op |-> "find_nodes", node_type |-> node_type,
                        name_pattern |-> name_pattern, limit |-> limit]
         /\ response' \in FindNodes(nodes, node_type, name_pattern, limit)
    /\ UNCHANGED <<nodes, edges, edgeSeq, pipelineSide>>

GGetEdges ==
    /\ request = NoRequest
    /\ \E node_id \in GraphNodes, direction \in Directions,
          edge_type \in EdgeTypes \cup {NoText} :
         /\ request' = [op |-> "get_edges", node_id |-> node_id,
                        direction |-> direction, edge_type |-> edge_type]
         /\ response' = GetEdges(edges, node_id, direction, edge_type)
    /\ UNCHANGED <<nodes, edges, edgeSeq, pipelineSide>>

GFindSimilarNodes ==
    /\ request = NoRequest
    /\ \E node_id \in GraphNodes, limit \in 1..MaxLimit :
         /\ request' = [op |-> "find_similar_nodes", node_id |-> node_id,
                        limit |-> limit]
         /\ response' \in FindSimilarNodes(nodes, edges, node_id, limit)
    /\ UNCHANGED <<nodes, edges, edgeSeq, pipelineSide>>

NextQuery ==
    \/ GCreateNode \/ GCreateEdge \/ GDeleteByDocument
    \/ GFindNodes \/ GGetEdges \/ GFindSimilarNodes
    \/ Return

SpecQuery == InitGraph /\ [][NextQuery]_vars

\* ----------------------------------------------------------------- anchors
\* heading_to_anchor and heading_path_to_anchor (utils/markdown.py).  A heading
\* is the sequence of its characters; "eacute" is the one precomposed letter
\* e with acute accent, "acute" the combining accent NFKD splits off it.
MaxLen == 3         \* longest heading, in characters

Chars == {"E", "e", "2", " ", "-", "_", ":", "eacute"}

RECURSIVE SeqsUpTo(_, _)
SeqsUpTo(S, n) ==
    IF n = 0 THEN {<<>>}
    ELSE LET shorter == SeqsUpTo(S, n - 1)
         IN  shorter \cup {Append(q, x) : q \in shorter, x \in S}

Headings == SeqsUpTo(Chars, MaxLen)

\* A heading path: empty, one heading, or a heading under a parent heading.
HeadingPaths ==
    {<<>>} \cup {<<h>> : h \in Headings} \cup {<<<<"E">>, h>> : h \in Headings}

InitAnchor == InitWith(NoTree) /\ graphOn

\* unicodedata.normalize("NFKD", heading), character by character.
Nfkd(ch) == IF ch = "eacute" THEN <<"e", "acute">> ELSE <<ch>>

\* str.lower()
Lower(ch) == IF ch = "E" THEN "e" ELSE ch

\* \w of a str pattern: letters, digits and the underscore; a combining mark
\* is none of them.
IsWordChar(ch) == ch \in {"E", "e", "2", "eacute", "_"}

\* \s
IsSpace(ch) == ch = " "

RECURSIVE Normalized(_)
Normalized(text) ==
    IF text = <<>> THEN <<>> ELSE Nfkd(Head(text)) \o Normalized(Tail(text))

Lowered(text) == [i \in 1..Len(text) |-> Lower(text[i])]

\* re.sub(r"[^\w\s-]", "", text)
Stripped(text) ==
    SelectSeq(text, LAMBDA ch : IsWordChar(ch) \/ IsSpace(ch) \/ ch = "-")

\* re.sub(r"[\s]+", "-", text): each run of whitespace becomes one hyphen.
RECURSIVE Hyphenated(_)
Hyphenated(text) ==
    IF text = <<>> THEN <<>>
    ELSE IF IsSpace(Head(text))
      THEN IF Len(text) > 1 /\ IsSpace(text[2])
             THEN Hyphenated(Tail(text))
             ELSE <<"-">> \o Hyphenated(Tail(text))
    ELSE <<Head(text)>> \o Hyphenated(Tail(text))

\* text.strip("-")
RECURSIVE Trimmed(_)
Trimmed(text) ==
    IF text = <<>> THEN <<>>
    ELSE IF Head(text) = "-" THEN Trimmed(Tail(text))
    ELSE IF text[Len(text)] = "-"
      THEN Trimmed(SubSeq(text, 1, Len(text) - 1))
    ELSE text

HeadingToAnchor(heading) ==
    Trimmed(Hyphenated(Stripped(Lowered(Normalized(heading)))))

\* None for an empty path, else the anchor of the last element.
HeadingPathToAnchor(heading_path) ==
    IF heading_path = <<>> THEN None
    ELSE Some(HeadingToAnchor(heading_path[Len(heading_path)]))

AnchorOf ==
    /\ request = NoRequest
    /\ \E heading \in Headings :
         /\ request' = [op |-> "heading_to_anchor", heading |-> heading]
         /\ response' = HeadingToAnchor(heading)
    /\ UNCHANGED <<nodes, edges, edgeSeq, pipelineSide>>

AnchorOfPath ==
    /\ request = NoRequest
    /\ \E heading_path \in HeadingPaths :
         /\ request' = [op |-> "heading_path_to_anchor",
                        heading_path |-> heading_path]
         /\ response' = HeadingPathToAnchor(heading_path)
    /\ UNCHANGED <<nodes, edges, edgeSeq, pipelineSide>>

NextAnchor == AnchorOf \/ AnchorOfPath \/ Return

SpecAnchor == InitAnchor /\ [][NextAnchor]_vars

RECURSIVE Reach(_, _, _, _)
Reach(es, S, k, types) ==
    IF k = 0
      THEN S
      ELSE Reach(es,
                 S \cup {e.dst : e \in {x \in es : /\ x.src \in S
                                                   /\ EdgeFilter(x, types)}},
                 k - 1, types)

Stored(e) == /\ \E n \in nodes : n.id = e.src
             /\ \E n \in nodes : n.id = e.dst

Returned == BagToSet(response)

\* C14: traverse without a type filter and with max_hops >= 1 returns, for
\* each edge between stored nodes whose source is the start node or within
\* max_hops - 1 outgoing edges of it, exactly one triple (its source node, the
\* edge, its target node), once, and no other triple, cycles and self-loops
\* included; on the chain A -> B -> C from A, max_hops = 1 gives the edge into
\* B alone and max_hops = 2 gives both edges.
C14_TraverseWithinHops ==
    (request.op = "traverse" /\ request.types = NoTypes
       /\ request.hops >= 1) =>
        LET within == {e \in edges :
                          e.src \in Reach(edges, {request.start},
                                          request.hops - 1, NoTypes)}
        IN
          /\ \A t \in Returned :
               /\ response[t] = 1
               /\ t[2] \in within
               /\ t[1] \in nodes /\ t[1].id = t[2].src
               /\ t[3] \in nodes /\ t[3].id = t[2].dst
          /\ \A e \in within :
               Stored(e) => Cardinality({t \in Returned : t[2] = e}) = 1
          /\ \A e1, e2 \in edges :
               (/\ edges = {e1, e2} /\ Stored(e1) /\ Stored(e2)
                /\ e1.src = "A" /\ e1.dst = "B"
                /\ e2.src = "B" /\ e2.dst = "C"
                /\ request.start = "A") =>
                   {t[2] : t \in Returned}
                     = IF request.hops = 1 THEN {e1} ELSE {e1, e2}

C14_Witness ==
    /\ request.op = "traverse" /\ request.types = NoTypes
    /\ request.start = "A" /\ request.hops = 2
    /\ \E e1, e2 \in edges :
         /\ e1.src = "A" /\ e1.dst = "B"
         /\ e2.src = "B" /\ e2.dst = "A"
         /\ {t[2] : t \in Returned} = {e1, e2}

\* C15: traverse with a type filter returns only triples whose edge has a
\* type of the filter and whose edge leaves the start node or a node that
\* edges of the filter's types lead to from the start node.
C15_TraverseFilter ==
    (request.op = "traverse" /\ request.types # NoTypes) =>
        \A t \in Returned :
            /\ t[2].type \in request.types
            /\ t[2].src \in Reach(edges, {request.start},
                                   Cardinality(GraphNodes), request.types)

C15_Witness ==
    /\ request.op = "traverse" /\ request.types = {"t1"}
    /\ request.start = "A" /\ request.hops = 2
    /\ \E e1, e2 \in edges :
         /\ e1.src = "A" /\ e1.dst = "B" /\ e1.type = "t2"
         /\ e2.src = "B" /\ e2.dst = "C" /\ e2.type = "t1"
         /\ Stored(e1) /\ Stored(e2)
    /\ Returned = {}

\* C27: for every max_hops >= 0 each edge traverse returns is the last edge
\* of an outgoing path of at most max_hops edges from the start node, so
\* traverse(start, 0) returns nothing.
C27_TraverseHopBound ==
    request.op = "traverse" =>
        \A t \in Returned :
           /\ request.hops >= 1
           /\ t[2].src \in Reach(edges, {request.start}, request.hops - 1,
                                 NoTypes)

\* C30: every stored edge's source_id and target_id name stored nodes, in
\* every state reached by create_node, create_edge between stored nodes and
\* delete_by_document.
C30_EdgesNameStoredNodes ==
    \A e \in edges : Stored(e)

\* ------------------------------------------------------- claims, retrieval
\* The 1-based positions of url u among the candidates.
PositionsOf(refs, u) == {i \in 1..Len(refs) : refs[i].url = u}

\* The sum over the candidates of url u of 1 / (60 + r + 1), r the 0-based
\* position, in units of 1 / RrfScale.
RECURSIVE SumOver(_)
SumOver(ps) ==
    IF ps = {} THEN 0
    ELSE LET i == CHOOSE x \in ps : TRUE
         IN  RrfScale \div (60 + (i - 1) + 1) + SumOver(ps \ {i})

NonIncreasing(refs) ==
    \A i \in 1..Len(refs) - 1 : refs[i].score >= refs[i + 1].score

\* C16: the list _deduplicate_references returns holds each url at most once
\* (every url of the candidates when the limit allows), in non-increasing
\* order of score; the entry of a url is its first candidate, retagged hybrid,
\* with score the sum of 1 / (60 + r + 1) over the 0-based positions r of the
\* url's candidates; a url at positions 0 and 2 has 1/61 + 1/63.
C16_RrfFusion ==
    request.op = "deduplicate" =>
        LET cands == request.refs
            urls  == {cands[i].url : i \in 1..Len(cands)}
        IN
          /\ Len(response) = Min(request.limit, Cardinality(urls))
          /\ \A i, j \in 1..Len(response) :
               i # j => response[i].url # response[j].url
          /\ NonIncreasing(response)
          /\ \A i \in 1..Len(response) :
               LET r  == response[i]
                   ps == PositionsOf(cands, r.url)
               IN  /\ ps # {}
                   /\ \A p \in ps : r.id <= p
                   /\ r.id \in ps
                   /\ r.mode = "hybrid"
                   /\ r.score = SumOver(ps)
                   /\ ps = {1, 3} => r.score * 61 * 63 = RrfScale * (61 + 63)
          /\ \A u \in urls :
               (\A i \in 1..Len(response) : response[i].url # u) =>
                   \A i \in 1..Len(response) :
                       response[i].score >= SumOver(PositionsOf(cands, u))

C16_Witness ==
    /\ request.op = "deduplicate"
    /\ Len(response) = 2
    /\ PositionsOf(request.refs, response[2].url) = {1}
    /\ PositionsOf(request.refs, response[1].url) = {2, 3}
    /\ response[1].id = 2

\* C17: search returns its references in non-increasing order of score, at
\* most limit of them, with total_count their number; in graph mode it
\* returns the empty list.
C17_SearchSortedTruncated ==
    request.op = "search" =>
        /\ NonIncreasing(response.references)
        /\ Len(response.references) <= request.limit
        /\ response.total_count = Len(response.references)
        /\ request.mode = "graph" =>
              response.references = <<>> /\ response.total_count = 0
        /\ request.mode = "vector" =>
              response.references
                = Truncate(VectorRefs(request.hits), request.limit)

C17_Witness ==
    /\ request.op = "search"
    /\ request.mode = "hybrid"
    /\ Len(request.hits) = 3
    /\ request.limit = 3
    /\ Len(response.references) = 2
    /\ response.references[1].score > response.references[2].score
    /\ response.references[1].id = 2

\* ----------------------------------------------------- claims, URL resolver
\* The pieces of a template, each placeholder replaced by its value at once.
RECURSIVE Filled(_, _, _, _)
Filled(template, remote, branch, path) ==
    IF template = <<>> THEN <<>>
    ELSE LET t == Head(template) IN
         (CASE t = "{remote}" -> remote
            [] t = "{branch}" -> <<branch>>
            [] t = "{path}"   -> <<path>>
            [] OTHER          -> <<t>>)
           \o Filled(Tail(template), remote, branch, path)

Given(o) == o # None /\ o # Some(<<>>)

\* C20: resolve returns the template with {remote}, {branch} and {path}
\* substituted whenever a template is configured; otherwise
\* <normalized-remote>/blob/<branch>/<relativePath> whenever a remote URL is
\* configured; otherwise file://<absolute local path>; and "#" + anchor is
\* appended exactly when a non-empty anchor is given.
C20_ResolvePriority ==
    request.op = "resolve" =>
      LET c    == request.config
          p    == request.path
          a    == request.anchor
          body == IF Given(a)
                  THEN SubSeq(response, 1, Len(response) - 2)
                  ELSE response
      IN  /\ Given(a) => /\ Len(response) >= 2
                         /\ response[Len(response) - 1] = "#"
                         /\ <<response[Len(response)]>> = TextOf(a)
          /\ ~Given(a) => \A i \in 1..Len(response) : response[i] # "#"
          /\ Given(c.base_url_template) =>
               body = Filled(TextOf(c.base_url_template),
                             NormalizeRemoteUrl(OrEmpty(c.remote_url)),
                             c.branch, p)
          /\ ~Given(c.base_url_template) /\ Given(c.remote_url) =>
               body = NormalizeRemoteUrl(TextOf(c.remote_url))
                        \o <<"/blob/", c.branch, "/", p>>
          /\ ~Given(c.base_url_template) /\ ~Given(c.remote_url) =>
               /\ body[1] = "file://"
               /\ body[2] = "/"
               /\ SubSeq(body, Len(body) - 1, Len(body)) = <<"/", p>>
               /\ SubSeq(body, Len(body) - 1 - Len(c.local_path),
                         Len(body) - 2) = c.local_path

\* A template and a remote URL are both configured and an anchor is given:
\* the template wins, every {path} is filled in, the anchor comes last.
C20_Witness ==
    /\ request.op = "resolve"
    /\ request.config.remote_url
         = Some(<<"git@", "github.com", ":", "org/repo", ".git">>)
    /\ response = <<"https://docs.example/", "main", "/", "README.md",
                    "?src=", "README.md", "#", "sec">>

\* The user part of an SSH-style remote, user@host:org/repo.
SshUsers == {"git@", "alice@"}

\* C21: normalization strips a trailing .git, turns every SSH-style remote
\* user@host:org/repo, whatever the user name, into https://host/org/repo and
\* leaves an HTTPS URL as it is apart from the suffix; resolve with remote
\* git@github.com:org/repo.git, branch develop, path README.md and no anchor
\* gives https://github.com/org/repo/blob/develop/README.md.
C21_RemoteNormalization ==
    /\ request.op = "normalize" =>
         LET url  == request.url
             bare == IF url # <<>> /\ url[Len(url)] = ".git"
                     THEN SubSeq(url, 1, Len(url) - 1) ELSE url
         IN  /\ (bare # <<>> /\ bare[1] = "https://") => response = bare
             /\ (Len(bare) = 4 /\ bare[1] \in SshUsers /\ bare[3] = ":") =>
                  response = <<"https://", bare[2], "/", bare[4]>>
    /\ ( /\ request.op = "resolve"
         /\ ~Given(request.config.base_url_template)
         /\ request.config.remote_url
              = Some(<<"git@", "github.com", ":", "org/repo", ".git">>)
         /\ request.config.branch = "develop"
         /\ request.path = "README.md"
         /\ request.anchor = None )
       => response = <<"https://", "github.com", "/", "org/repo", "/blob/",
                       "develop", "/", "README.md">>

\* ------------------------------------------------- claims, repository level
SyncReturned == op = "sync" /\ pc = "done" /\ exc = NoExc
RowsOf(f)    == {r \in documents : r.ext = ExternalId(f)}
Range(q)     == {q[i] : i \in 1..Len(q)}
UnderId(i)   == <<{r \in documents : r.id = i}, {c \in chunks : c.doc = i},
                  {v \in vectors : v.doc = i}, {n \in nodes : n.doc = i},
                  {e \in edges : e.doc = i}>>

\* C4: when sync_repository returns right after an earlier sync_repository
\* with the same since revision, no commit in between, the second call has
\* indexed = 0 and has counted every changed file as skipped.
C4_SecondSyncSkipsAll ==
    (SyncReturned /\ prev.op = "sync" /\ prev.base = base /\ ~prev.raised) =>
        /\ indexed = 0
        /\ \A f \in Range(ChangedFiles(base, head)) : outcome[f] = "skipped"

\* C5: when sync_repository returns and nothing raised for a changed file for
\* which the lookup found no document, the file is counted as indexed and a
\* document with its external id and status indexed is stored.
C5_NewFileIndexed ==
    (SyncReturned /\ ~faulted) =>
        \A f \in FileSet :
            found[f] = NoId =>
                /\ outcome[f] = "indexed"
                /\ \E r \in RowsOf(f) : r.status = "indexed"

\* C6: when sync_repository returns, every changed file whose existing
\* document had another hash and whose reindex raised nowhere has exactly one
\* stored document under its external id, with the id the document had before
\* and the hash of the file's current content, and is counted as indexed.
C6_ChangedFileKeepsId ==
    (op = "sync" /\ pc = "done") =>
        /\ indexed = Cardinality({f \in FileSet : outcome[f] = "indexed"})
        /\ \A f \in FileSet :
             (found[f] > NoId /\ outcome[f] = "indexed") =>
                 /\ Cardinality(RowsOf(f)) = 1
                 /\ \A r \in RowsOf(f) :
                      /\ r.id = found[f]
                      /\ r.hash = Hash(head[f])
                      /\ r.status = "indexed"

C6_Witness ==
    /\ op = "sync" /\ pc = "done"
    /\ \E f \in FileSet :
         /\ found[f] > NoId
         /\ outcome[f] = "indexed"
         /\ \E r \in RowsOf(f) : r.id = found[f] /\ r.content = "v2"

\* C8: when sync_repository returns, the document found for a deleted file is
\* gone with its chunks, vector entries and graph entries, and the summary's
\* deleted count is the number of deleted files, found or not.
C8_DeletedFilesGone ==
    SyncReturned =>
        /\ deleted = Len(DeletedFiles(base, head))
        /\ \A f \in Range(DeletedFiles(base, head)) :
             /\ RowsOf(f) = {}
             /\ found[f] > NoId => UnderId(found[f]) = <<{}, {}, {}, {}, {}>>

\* The same, for the calls in which no store call raised.
C8_CleanSync ==
    (SyncReturned /\ ~faulted) =>
        /\ deleted = Len(DeletedFiles(base, head))
        /\ \A f \in Range(DeletedFiles(base, head)) :
             /\ RowsOf(f) = {}
             /\ found[f] > NoId => UnderId(found[f]) = <<{}, {}, {}, {}, {}>>

\* C9: sync_repository ends by returning its summary, never by raising, and
\* by then it has gone through every deleted and every changed file.
C9_SyncNeverRaises ==
    (op = "sync" /\ pc = "done") =>
        /\ exc = NoExc
        /\ delq = <<>>
        /\ chgq = <<>>

\* C10: index_repository on a git repository attempts the scanned files one
\* after the other in scan order whatever fails, ends by returning, and
\* returns, in scan order, exactly the documents of the files whose
\* index_document returned, each indexed in hand and in the store.
Scanned == ScanFiles(head)

C10_IndexRepositoryNeverAborts ==
    (op = "indexRepo" /\ err # "not_git_repo") =>
        /\ attempted \o chgq = Scanned
        /\ pc = "done" =>
             /\ exc = NoExc
             /\ attempted = Scanned
             /\ \A f \in Range(Scanned) : outcome[f] \in {"indexed", "error"}
             /\ [i \in 1..Len(results) |-> results[i].ext]
                  = SelectSeq([i \in 1..Len(Scanned) |-> ExternalId(Scanned[i])],
                              LAMBDA e : \E f \in FileSet :
                                  e = ExternalId(f) /\ outcome[f] = "indexed")
             /\ \A i \in 1..Len(results) :
                  /\ results[i].status = "indexed"
                  /\ GetDocument(documents, results[i].id).status = "indexed"
                  /\ GetDocument(documents, results[i].id).ext = results[i].ext

C10_Witness ==
    /\ op = "indexRepo" /\ pc = "done"
    /\ Len(Scanned) = 2
    /\ outcome[Scanned[1]] = "error"
    /\ Len(results) = 1
    /\ results[1].ext = ExternalId(Scanned[2])

C22_DiffFailureExaminesAll ==
    (op = "sync" /\ base = UnknownRevision) =>
        /\ pc = "sy_del" => Range(chgq) = {f \in FileSet : head[f] # Absent}
        /\ pc = "done" =>
              \A f \in FileSet : head[f] # Absent => outcome[f] # "none"

\* Two files are listed; the unchanged one is skipped and the changed one is
\* indexed again.
C22_Witness ==
    /\ op = "sync" /\ base = UnknownRevision /\ pc = "done" /\ exc = NoExc
    /\ \A f \in FileSet : head[f] # Absent
    /\ \E f, g \in FileSet : outcome[f] = "skipped" /\ outcome[g] = "indexed"

\* ------------------------------------------------ claims, graph store queries
\* C23: find_similar_nodes(node_id, limit) never returns the node node_id
\* itself, returns at most limit nodes in descending order of their shared
\* edge count, and each score is that count over 10 capped at 1.
C23_SimilarNodesExcludeSelf ==
    request.op = "find_similar_nodes" =>
        /\ \A i \in 1..Len(response) : response[i].node.id # request.node_id
        /\ Len(response) <= request.limit
        /\ \A i \in 1..Len(response) - 1 :
             response[i].shared >= response[i + 1].shared
        /\ \A i \in 1..Len(response) :
             /\ response[i].score = Min(response[i].shared, 10)
             /\ response[i].score \in 0..10

\* The characters of pattern occur in name, in a row and in the same case.
Contains(name, pattern) ==
    \E k \in 0..(Len(name) - Len(pattern)) :
       \A i \in 1..Len(pattern) : name[k + i] = pattern[i]

\* C24: find_nodes with a name pattern returns, up to limit, exactly the
\* stored nodes whose name contains the pattern in the same letter case and
\* whose type is the type asked for, if one is.
C24_FindNodesCaseSensitive ==
    (request.op = "find_nodes" /\ request.name_pattern # NoPattern) =>
        LET matching ==
              {n \in nodes :
                 /\ Contains(NodeName(n.id), request.name_pattern)
                 /\ request.node_type # NoText
                      => NodeType(n.id) = request.node_type}
        IN  /\ response \subseteq matching
            /\ Cardinality(response)
                 = Min(request.limit, Cardinality(matching))

\* C28: get_edges(node_id, direction, edge_type) returns exactly the edges
\* whose source (out), target (in) or either end (both) is node_id, and of
\* them only those of edge_type when one is given.
C28_GetEdgesByDirection ==
    request.op = "get_edges" =>
        response =
          {e \in edges :
             /\ CASE request.direction = "out" -> e.src = request.node_id
                  [] request.direction = "in"  -> e.dst = request.node_id
                  [] OTHER -> e.src = request.node_id
                                \/ e.dst = request.node_id
             /\ request.edge_type # NoText => e.type = request.edge_type}

\* ------------------------------------------------------------ claims, anchors
\* Letters, digits, whitespace and the hyphen; an accented letter counts by
\* its base letter.
Kept(ch) == ch \in {"e", "2", " ", "-"}
Plain(ch) == IF ch \in {"E", "eacute"} THEN "e" ELSE ch

\* A whitespace run becomes one hyphen: a space is dropped when another
\* follows it.
OneHyphenPerRun(text) ==
    LET last == SelectSeq([i \in 1..Len(text) |-> <<i, text[i]>>],
                          LAMBDA p : ~(p[2] = " " /\ p[1] < Len(text)
                                         /\ text[p[1] + 1] = " "))
    IN  [i \in 1..Len(last) |-> IF last[i][2] = " " THEN "-" ELSE last[i][2]]

\* The positions that hold something other than a hyphen.
InnerSpan(text) ==
    {i \in 1..Len(text) : text[i] # "-"}

\* C25: anchor(heading) is the lowercased heading without the characters
\* that are no letter, digit, whitespace or hyphen (an underscore and a colon
\* are removed), each whitespace run turned into one hyphen, leading and
\* trailing hyphens trimmed; "Entity: User" style headings lose the colon; the
\* anchor of an empty heading path is absent, else it is the anchor of the
\* path's last element.
C25_AnchorGeneration ==
    /\ request.op = "heading_to_anchor" =>
         LET lowered == [i \in 1..Len(request.heading) |->
                            Plain(request.heading[i])]
             kept    == SelectSeq(lowered, Kept)
             joined  == OneHyphenPerRun(kept)
             inner   == InnerSpan(joined)
             first   == CHOOSE i \in inner : \A j \in inner : i <= j
             final   == CHOOSE i \in inner : \A j \in inner : i >= j
         IN  /\ response = IF inner = {} THEN <<>>
                           ELSE SubSeq(joined, first, final)
             /\ \A i \in 1..Len(response) : response[i] \notin {"_", ":"}
    /\ request.op = "heading_path_to_anchor" =>
         IF request.heading_path = <<>>
           THEN response = None
           ELSE response = Some(HeadingToAnchor(
                   request.heading_path[Len(request.heading_path)]))

\* ------------------------------------------------ concurrent reindex_document
\* Two callers hand the same stored document to reindex_document on one event
\* loop.  Each awaited store call is one step; between two steps of a caller
\* the loop may resume the other.  The stores are left as one clean
\* index_document of document 1 leaves them.
FirstDocument(c) == Indexed(Processing(NewDocument(1, NoExt, c)))

InitRace ==
    /\ graphOn \in BOOLEAN
    /\ \E c \in Contents :
         /\ documents = {FirstDocument(c)}
         /\ chunks = ChunkDocument(FirstDocument(c), 1)
         /\ vectors = EmbedChunks(ChunkDocument(FirstDocument(c), 1))
         /\ nodes = IF graphOn
                      THEN ExtractNodes(FirstDocument(c), 1, ExtractCount(c))
                      ELSE {}
    /\ edges = {}
    /\ head = NoTree
    /\ uuid = 1 /\ runs = 1 /\ edgeSeq = 0
    /\ calls = 1 /\ faults = 0
    /\ op = "none" /\ pc = "idle" /\ doc = NoDoc /\ stamp = 0
    /\ err = "none" /\ exc = NoExc /\ ret = FALSE
    /\ faulted = FALSE /\ swallowed = FALSE /\ hadRow = FALSE
    /\ base = NoTree /\ chgq = <<>> /\ delq = <<>> /\ file = ""
    /\ indexed = 0 /\ skipped = 0 /\ deleted = 0
    /\ outcome = NoOutcome /\ found = NoFound
    /\ results = <<>> /\ attempted = <<>>
    /\ prev = NoPrev
    /\ before = {}
    /\ request = NoRequest /\ response = NoResponse
    /\ callers = [c \in Callers |-> NoCaller]

\* What no step of a concurrent caller touches.
raceSide == <<env, uuid, edgeSeq, calls, task, batch, prev, before, request,
              response>>

\* A lock around reindex_document: a caller moves only while no other caller
\* is between its first and its last store call.
MayRun_Locked(c) ==
    \A o \in Callers \ {c} : callers[o].pc \in {"idle", "done"}

\* reindex_document and index_document take no lock and the pipeline keeps no
\* per-document queue: a suspended caller may be resumed whatever the position
\* of the other.
MayRun(c) == TRUE

At(c, p)   == callers[c].pc = p /\ MayRun(c)
Goto(c, p) == callers' = [callers EXCEPT ![c].pc = p]
\* An exception leaves reindex_document before index_document is entered.
RaceRaise(c) == callers' = [callers EXCEPT ![c].pc = "done", ![c].raised = TRUE]

\* IndexingService.reindex_document: the stored document is fetched by id and
\* handed to the pipeline; the coroutine is created, nothing has run yet.
RaceCall ==
    \E c \in Callers :
      /\ callers[c].pc = "idle"
      /\ \E r \in documents :
           callers' = [callers EXCEPT ![c].pc = "rx_vec", ![c].doc = r]
      /\ UNCHANGED <<stores, runs, faults, raceSide>>

\* self._vector.delete_by_document; a raise inside is logged and dropped.
RaceVector ==
    \E c \in Callers :
      /\ At(c, "rx_vec")
      /\ \E fault \in MayFail :
           /\ Count(fault)
           /\ vectors' = IF fault THEN vectors
                          ELSE VectorDeleteByDocument(vectors, callers[c].doc.id)
      /\ Goto(c, "rx_graph")
      /\ UNCHANGED <<documents, chunks, nodes, edges, runs, raceSide>>

\* if self._graph is not None: self._graph.delete_by_document.
RaceGraph ==
    \E c \in Callers :
      /\ At(c, "rx_graph")
      /\ IF graphOn
           THEN \E fault \in MayFail :
                  /\ Count(fault)
                  /\ IF fault
                       THEN RaceRaise(c) /\ UNCHANGED <<nodes, edges>>
                       ELSE /\ edges' = GraphDeleteEdges(edges, callers[c].doc.id)
                            /\ nodes' = GraphDeleteNodes(nodes, callers[c].doc.id)
                            /\ Goto(c, "rx_chunks")
           ELSE Goto(c, "rx_chunks") /\ UNCHANGED <<nodes, edges, faults>>
      /\ UNCHANGED <<documents, chunks, vectors, runs, raceSide>>

\* self._traceability.delete_chunks_by_document, then index_document.
RaceChunks ==
    \E c \in Callers :
      /\ At(c, "rx_chunks")
      /\ \E fault \in MayFail :
           /\ Count(fault)
           /\ IF fault
                THEN RaceRaise(c) /\ UNCHANGED chunks
                ELSE /\ chunks' = DeleteChunksByDocument(chunks,
                                                         callers[c].doc.id)
                     /\ Goto(c, "save")
      /\ UNCHANGED <<documents, vectors, nodes, edges, runs, raceSide>>

\* 1. document.status = PROCESSING; content_hash; save_document.
RaceSave ==
    \E c \in Callers :
      /\ At(c, "save")
      /\ runs < MaxRuns
      /\ runs' = runs + 1
      /\ \E fault \in MayFail :
           /\ Count(fault)
           /\ documents' = IF fault THEN documents
                            ELSE SaveDocument(documents,
                                              Processing(callers[c].doc))
           /\ callers' = [callers EXCEPT
                            ![c].pc = IF fault THEN "fail" ELSE "chunks",
                            ![c].doc = Processing(callers[c].doc),
                            ![c].stamp = runs + 1]
      /\ UNCHANGED <<chunks, vectors, nodes, edges, raceSide>>

\* 2-4. chunk_document, section anchors, save_chunks.
RaceSaveChunks ==
    \E c \in Callers :
      /\ At(c, "chunks")
      /\ \E fault \in MayFail :
           /\ Count(fault)
           /\ chunks' = IF fault THEN chunks
                         ELSE SaveChunks(chunks,
                                ChunkDocument(callers[c].doc, callers[c].stamp))
           /\ Goto(c, IF fault THEN "fail" ELSE "upsert")
      /\ UNCHANGED <<documents, vectors, nodes, edges, runs, raceSide>>

\* 5-6. embed_chunks over the chunks just saved, upsert_embeddings.
RaceUpsert ==
    \E c \in Callers :
      /\ At(c, "upsert")
      /\ \E fault \in MayFail :
           /\ Count(fault)
           /\ vectors' = IF fault THEN vectors
                          ELSE UpsertEmbeddings(vectors,
                                 EmbedChunks(ChunkDocument(callers[c].doc,
                                                           callers[c].stamp)))
           /\ Goto(c, IF fault THEN "fail" ELSE "graph")
      /\ UNCHANGED <<documents, chunks, nodes, edges, runs, raceSide>>

\* 7. if self._graph is not None: extract_document, create_node for each
\* extracted node, one commit per node: a raise after k nodes leaves k nodes.
RaceExtract ==
    \E c \in Callers :
      /\ At(c, "graph")
      /\ IF graphOn
           THEN \E k \in 0..ExtractCount(callers[c].doc.content) :
                  /\ (k < ExtractCount(callers[c].doc.content)) \in MayFail
                  /\ Count(k < ExtractCount(callers[c].doc.content))
                  /\ nodes' = nodes \cup ExtractNodes(callers[c].doc,
                                                      callers[c].stamp, k)
                  /\ Goto(c, IF k < ExtractCount(callers[c].doc.content)
                               THEN "fail" ELSE "update")
           ELSE Goto(c, "update") /\ UNCHANGED <<nodes, faults>>
      /\ UNCHANGED <<documents, chunks, vectors, edges, runs, raceSide>>

\* 8. status INDEXED, indexed_at, update_document; return document.
RaceUpdate ==
    \E c \in Callers :
      /\ At(c, "update")
      /\ \E fault \in MayFail :
           /\ Count(fault)
           /\ documents' = IF fault THEN documents
                            ELSE UpdateDocument(documents,
                                                Indexed(callers[c].doc))
           /\ callers' = [callers EXCEPT
                            ![c].pc = IF fault THEN "fail" ELSE "done",
                            ![c].doc = Indexed(callers[c].doc)]
      /\ UNCHANGED <<chunks, vectors, nodes, edges, runs, raceSide>>

\* except Exception: status FAILED, update_document inside try/except-pass,
\* raise PipelineError.
RaceFail ==
    \E c \in Callers :
      /\ At(c, "fail")
      /\ \E fault \in MayFail :
           /\ Count(fault)
           /\ documents' = IF fault THEN documents
                            ELSE UpdateDocument(documents,
                                                Failed(callers[c].doc))
      /\ callers' = [callers EXCEPT ![c].pc = "done", ![c].raised = TRUE,
                                    ![c].doc = Failed(callers[c].doc)]
      /\ UNCHANGED <<chunks, vectors, nodes, edges, runs, raceSide>>

NextRace ==
    \/ RaceCall
    \/ RaceVector \/ RaceGraph \/ RaceChunks
    \/ RaceSave \/ RaceSaveChunks \/ RaceUpsert \/ RaceExtract \/ RaceUpdate
    \/ RaceFail

SpecRace == InitRace /\ [][NextRace]_vars

\* -------------------------------------------------- claims, concurrent callers
\* A caller between its first and its last store call.
Suspended(c) == callers[c].pc \notin {"idle", "done"}
Completed(c) == callers[c].pc = "done" /\ ~callers[c].raised
WroteChunks(c) ==
    \E x \in chunks : x.doc = callers[c].doc.id /\ x.id[1] = callers[c].stamp
WroteEmbeddings(c) ==
    \E v \in vectors : v.doc = callers[c].doc.id /\ v.chunk[1] = callers[c].stamp

\* C26: two reindex_document calls for the same document id are not
\* serialized: whenever both callers are suspended between store calls, each
\* of them can be the next to run its store call, whatever the position of
\* the other.
C26_ReindexNotSerialized ==
    \A c \in Callers : \A o \in Callers \ {c} :
      (Suspended(c) /\ Suspended(o) /\ callers[c].doc.id = callers[o].doc.id)
        => ENABLED (NextRace /\ callers'[c] # callers[c])

\* Both calls have returned without an exception and the stores hold the
\* chunks and the embeddings written by both runs for the one document id.
C26_Witness ==
    /\ \A c \in Callers : Completed(c) /\ WroteChunks(c) /\ WroteEmbeddings(c)
    /\ callers["a"].doc.id = callers["b"].doc.id
    /\ callers["a"].stamp # callers["b"].stamp
    /\ faults = 0

====
